---- MODULE Spec2Model ----
(***************************************************************************)
(* Verification model of the subutai agent's template import, snapshot     *)
(* and state-restore code.                                                  *)
(*                                                                         *)
(* Part I   LxcImport (template import, recursive parent install, locks)   *)
(* Part II  Snapshot commands (create, remove, rollback, receive)          *)
(* Part III StateRestore (supervisor loop)                                 *)
(***************************************************************************)
EXTENDS Integers, Sequences, FiniteSets, TLC

(***************************************************************************)
(* Bounds of the model.                                                    *)
(***************************************************************************)
MaxInv == 2          \* command invocations (OS processes) of "import"
MaxConc == 2         \* invocations that may run at the same time
MaxFaults == 1       \* failures of storage, metadata service or lxc in a run
MaxCached == 1       \* files in the cache directory before the first import

(***************************************************************************)
(* Program constants.                                                      *)
(***************************************************************************)
maxDownloadAttempts == 3
Md5DigestMethod == "md5"
Sha256DigestMethod == "sha256"
Management == "M"                \* template name "management"
ChildDatasets == <<"rootfs", "home", "var", "opt">>

Parts == {ChildDatasets[k] : k \in 1..Len(ChildDatasets)}

(***************************************************************************)
(* The world of templates: three references in a chain M -> B -> A -> A,   *)
(* each with its metadata on the CDN, and one archive file on local disk   *)
(* whose config declares the reference B.                                  *)
(***************************************************************************)
Refs == {"A", "B", "M"}
LocalFiles == {"fB"}
Names == {"B", "M"} \cup LocalFiles     \* what "import" is called with
Invs == 1..MaxInv
NoRef == "-"

\* parents that form a cycle: A, the root, names M as its parent
ConfigParent_Cyclic(r) == IF r = "M" THEN "B" ELSE IF r = "B" THEN "A" ELSE "M"
\* the parent each published archive declares: M -> B -> A -> A
ChainParents == [r \in Refs |-> IF r = "M" THEN "B" ELSE "A"]

VARIABLES
    parents,     \* [Refs -> Refs]: the parent the config of each archive names
    digests      \* [Refs -> the digest-method and digest of the metadata]

\* subutai.parent[.owner|.version] of the config inside each archive
ConfigParent(r) == parents[r]
\* subutai.template[.owner|.version] of the config inside a local archive
ConfigTemplate(f) == "B"

\* the archive files: CacheDir/<id> of each reference and the files whose
\* path "import" is given
Files == Refs \cup LocalFiles

\* content of a file at CacheDir/<id>: none, the published archive, or
\* other bytes (a stale, partial or corrupt file)
Contents == {"none", "orig", "other"}

md5sum(content) == IF content = "none" THEN <<>> ELSE <<Md5DigestMethod, content>>
sha256(content) == IF content = "none" THEN <<>> ELSE <<Sha256DigestMethod, content>>

\* the digest fields of the metadata published for each reference
PublishedDigests ==
    [r \in Refs |->
        [DigestMethod |-> IF r = "B" THEN Md5DigestMethod ELSE Sha256DigestMethod,
         DigestHash |-> IF r = "B" THEN md5sum("orig") ELSE sha256("orig")]]

\* the digest-method and digest fields a metadata record may carry: the two
\* known methods, another one, none; the digest of the archive under each,
\* and none
DigestMethods == {Sha256DigestMethod, Md5DigestMethod, "sha1", ""}
DigestHashes == {sha256("orig"), md5sum("orig"), <<"sha1", "orig">>, <<>>}

\* the metadata record the CDN returns for a reference
getTemplateInfo(r) ==
    [Id |-> r, Name |-> r,
     DigestMethod |-> digests[r].DigestMethod,
     DigestHash |-> digests[r].DigestHash]

\* the verification that takes a method it does not know for granted
verifyChecksum_AnyMethod(template, content) ==
    IF template.DigestMethod = Sha256DigestMethod
    THEN template.DigestHash = sha256(content)
    ELSE IF template.DigestMethod = Md5DigestMethod
         THEN template.DigestHash = md5sum(content)
         ELSE TRUE

verifyChecksum(template, content) ==
    IF template.DigestMethod = Sha256DigestMethod
    THEN template.DigestHash = sha256(content)
    ELSE IF template.DigestMethod = Md5DigestMethod
         THEN template.DigestHash = md5sum(content)
         ELSE FALSE

TmplKey(f) == "tmpl_" \o f
LockKeys == Refs \cup {TmplKey(f) : f \in LocalFiles}
\* the key of common.LockFile("lxc", "destroy")
DestroyKey == "lxc.destroy"

VARIABLES
    status,      \* [Invs -> "new" | "running" | "done" | "failed" | "over"]
    stack,       \* [Invs -> Seq(frame)]: the LxcImport calls of the process
    token,       \* [Invs -> BOOLEAN]: a token of length > 1 was passed
    locks,       \* [LockKeys and DestroyKey -> 0 | owner]: lock files on disk
    cache,       \* [Files -> Contents]: CacheDir/<id> and the local archives
    extractDirs, \* directories CacheDir/<templateRef> present on disk
    ds,          \* [Refs -> dataset tree]: datasets of each reference
    mgmtCont,    \* the management container exists
    conc,        \* how many invocations may run concurrently
    budget,      \* how many failures the environment may inject
    faults,      \* failures injected so far
    eff,         \* [Invs -> what the invocation did] (history)
    installs     \* [Invs -> [Refs -> calls of install begun, ended]] (history)

cfgVars == <<conc, budget, parents, digests>>
importVars == <<status, stack, token, locks, cache, extractDirs, ds, mgmtCont,
                cfgVars, faults, eff, installs>>

VARIABLES
    snaps,       \* the names of the snapshots that exist
    cds,         \* [ContNames -> dataset tree] of the containers
    cstate,      \* [ContNames -> runtime state of the container]
    last         \* the snapshot command that ran last and has not exited:
                 \* its arguments, the calls it issued, how it ended

snapVars == <<snaps, cds, cstate, last>>

VARIABLES
    db,          \* [SupConts -> desired state] of the persisted records
    rt,          \* [SupConts -> runtime state]
    sup,         \* the supervisor: position in doRestore, its list, retries
    downgraded   \* containers the supervisor set to Stopped and nobody has
                 \* set back to Running since (history)

supVars == <<db, rt, sup, downgraded>>

vars == <<importVars, snapVars, supVars>>

NoDataset == [exists |-> FALSE, recv |-> {}, ro |-> {}, cfg |-> FALSE]
NoInstalls == [r \in Refs |-> [calls |-> 0, done |-> 0]]
\* resolve: the metadata service was asked; download: a transfer was begun;
\* mutate: a dataset was created, changed or destroyed; found: the check of
\* the command's own reference found it installed; boot: initManagement ran;
\* installErr: a call of install returned an error
NoEff == [resolve |-> FALSE, download |-> FALSE, mutate |-> FALSE,
          found |-> FALSE, boot |-> FALSE, installErr |-> FALSE]

\* a step that can fail takes its outcome ok from the environment; a failure
\* uses up one of the failures of the run's budget
Fault(ok) ==
    IF ok THEN UNCHANGED faults
          ELSE faults < budget /\ faults' = faults + 1

(***************************************************************************)
(* Collaborators of lib/container and lib/fs, as seen by the import code.  *)
(***************************************************************************)
DatasetExists(r) == r \in Refs /\ ds[r].exists

\* lxc.DefinedContainerNames: the directories of LxcPrefix holding a config
All == {r \in Refs : ds[r].cfg}

LxcInstanceExists(name) == name \in All

IsTemplate(name) ==
    /\ name \in Refs
    /\ "rootfs" \in ds[name].recv
    /\ "rootfs" \in ds[name].ro

stringInList(s, list) == s \in list

(***************************************************************************)
(* Call frames of LxcImport.                                               *)
(***************************************************************************)
NewFrame(name, auxDepList) ==
    [name |-> name, local |-> name \in LocalFiles, key |-> NoRef,
     templateRef |-> NoRef, pc |-> "begin", auxDepList |-> auxDepList,
     attempts |-> 0, mismatches |-> 0, step |-> 0, installErr |-> FALSE,
     archive |-> "none"]

Depth(i) == Len(stack[i])
Top(i) == stack[i][Depth(i)]
At(i, pc) == status[i] = "running" /\ Depth(i) > 0 /\ Top(i).pc = pc
Live == {j \in Invs : status[j] = "running"}

SetTop(i, f) == [stack EXCEPT ![i][Depth(i)] = f]

\* log.Error, log.Fatal and log.Check at Error or Fatal level end the
\* process at once: no deferred call of any frame runs, lock files stay.
LogExit(i) ==
    /\ status' = [status EXCEPT ![i] = "failed"]
    /\ stack' = [stack EXCEPT ![i] = <<>>]

\* the deferred lock.Unlock() of a returning call removes the lock file if
\* this process owns it
Unlocked(i, f) ==
    IF f.key \in LockKeys /\ locks[f.key] = i
        THEN [locks EXCEPT ![f.key] = 0]
        ELSE locks

\* return of the top LxcImport call
Return(i) ==
    /\ stack' = [stack EXCEPT ![i] = SubSeq(@, 1, Depth(i) - 1)]
    /\ status' = [status EXCEPT ![i] = IF Depth(i) = 1 THEN "done" ELSE @]

(***************************************************************************)
(* Part I: LxcImport.  One action per stretch of the function between two  *)
(* accesses of state that other processes share.                           *)
(***************************************************************************)
\* a new process is started with "import <name>"; the exit codes and the
\* histories of the processes that ended before are forgotten
Ended(j) == status[j] \in {"done", "failed", "over"}

StartImport(i, name, tk) ==
    /\ status[i] = "new"
    /\ i > 1 => status[i - 1] # "new"
    /\ Cardinality(Live) < conc
    /\ tk => name = Management
    /\ status' = [j \in Invs |-> IF j = i THEN "running"
                                ELSE IF Ended(j) THEN "over" ELSE status[j]]
    /\ stack' = [stack EXCEPT ![i] = <<NewFrame(name, {})>>]
    /\ token' = [j \in Invs |-> IF j = i THEN tk
                               ELSE IF Ended(j) THEN FALSE ELSE token[j]]
    /\ eff' = [j \in Invs |-> IF Ended(j) THEN NoEff ELSE eff[j]]
    /\ installs' = [j \in Invs |-> IF Ended(j) THEN NoInstalls ELSE installs[j]]
    /\ UNCHANGED <<locks, cache, extractDirs, ds, mgmtCont, cfgVars, faults>>
    /\ UNCHANGED <<snapVars, supVars>>

\* entry of LxcImport up to "Importing <name>": the management shortcut,
\* metadata resolution (remote) or the tmpl_<file> reference (local)
Begin(i, ok) ==
    /\ At(i, "begin")
    /\ LET f == Top(i)
           shortcut == mgmtCont /\ Depth(i) = 1 /\ f.name = Management
                       /\ token[i]
       IN IF shortcut
          THEN /\ ok
               /\ Return(i)
               /\ UNCHANGED <<eff, faults>>
          ELSE IF f.local
          THEN /\ ok
               /\ stack' = SetTop(i, [f EXCEPT !.templateRef = TmplKey(f.name),
                                               !.key = TmplKey(f.name),
                                               !.pc = "lock"])
               /\ UNCHANGED <<status, eff, faults>>
          ELSE /\ Fault(ok)
               /\ eff' = [eff EXCEPT ![i].resolve = TRUE]
               /\ IF ok
                  THEN /\ LET t == getTemplateInfo(f.name) IN
                          stack' = SetTop(i, [f EXCEPT !.templateRef = t.Name,
                                                       !.key = t.Name,
                                                       !.pc = "lock"])
                       /\ UNCHANGED status
                  ELSE LogExit(i)      \* 404, non-200, unparsable answer
    /\ UNCHANGED <<token, locks, cache, extractDirs, ds, mgmtCont, cfgVars,
                   installs>>
    /\ UNCHANGED <<snapVars, supVars>>

\* common.LockFile(templateRef, "import"): the lock file is taken when there
\* is none, when this process owns it, or when its owner is no longer alive
LockFree(i, key) ==
    IF locks[key] \in {0, i} THEN TRUE ELSE status[locks[key]] # "running"

\* the spin loop of LxcImport ends when common.LockFile succeeds
LockImport(i) ==
    /\ At(i, "lock")
    /\ LET f == Top(i) IN
       /\ LockFree(i, f.key)
       /\ locks' = [locks EXCEPT ![f.key] = i]
       /\ stack' = SetTop(i, [f EXCEPT !.pc = "exists"])
    /\ UNCHANGED <<status, token, cache, extractDirs, ds, mgmtCont, cfgVars,
                   faults, eff, installs>>
    /\ UNCHANGED <<snapVars, supVars>>

InitOutcomes == {"ok", "noclone", "nosave"}

\* initManagement: clone the management container (errors of Clone are not
\* looked at), then write its record, which may end the process
initManagement(i, outcome) ==
    /\ Fault(outcome = "ok")
    /\ mgmtCont' = (mgmtCont \/ outcome # "noclone")
    /\ eff' = [eff EXCEPT ![i].mutate = TRUE,
                          ![i].boot = TRUE,
                          ![i].found = (Depth(i) = 1 /\ Top(i).pc = "exists")]
    /\ IF outcome # "nosave"
          THEN Return(i) /\ locks' = Unlocked(i, Top(i))
          ELSE LogExit(i) /\ UNCHANGED locks

\* CheckInstance without the return of the short-circuit
CheckInstance_NoReturn(i, outcome) ==
    /\ At(i, "exists")
    /\ outcome = "ok"
    /\ LET f == Top(i) IN
       /\ stack' = SetTop(i, [f EXCEPT !.pc = "cache"])
       /\ eff' = [eff EXCEPT ![i].found =
                     (Depth(i) = 1 /\ LxcInstanceExists(f.templateRef))]
    /\ UNCHANGED <<status, locks, mgmtCont, faults>>
    /\ UNCHANGED <<token, cache, extractDirs, ds, cfgVars, installs>>
    /\ UNCHANGED <<snapVars, supVars>>

\* the path of the archive a call of LxcImport works on: the file it was
\* given, or CacheDir/<id>
localArchive(f) == IF f.local THEN f.name ELSE f.templateRef

\* "if container.LxcInstanceExists(templateRef)": the idempotent short-circuit
CheckInstance(i, outcome) ==
    /\ At(i, "exists")
    /\ LET f == Top(i) IN
       IF LxcInstanceExists(f.templateRef)
       THEN IF f.name = Management /\ ~mgmtCont
            THEN initManagement(i, outcome)
            ELSE /\ outcome = "ok"
                 /\ Return(i)
                 /\ locks' = Unlocked(i, f)
                 /\ eff' = [eff EXCEPT ![i].found = (Depth(i) = 1)]
                 /\ UNCHANGED <<mgmtCont, faults>>
       ELSE /\ outcome = "ok"
            /\ stack' = SetTop(i, [f EXCEPT !.pc = "cache"])
            /\ UNCHANGED <<status, locks, eff, mgmtCont, faults>>
    /\ UNCHANGED <<token, cache, extractDirs, ds, cfgVars, installs>>
    /\ UNCHANGED <<snapVars, supVars>>

\* the cache check that takes any present file
CheckCache_NoVerify(i) ==
    /\ At(i, "cache")
    /\ LET f == Top(i)
           archiveExists == f.local \/ cache[f.templateRef] # "none"
       IN stack' = SetTop(i, [f EXCEPT !.pc = IF archiveExists THEN "extract"
                                                               ELSE "download"])
    /\ UNCHANGED <<status, token, locks, cache, extractDirs, ds, mgmtCont,
                   cfgVars, faults, eff, installs>>
    /\ UNCHANGED <<snapVars, supVars>>

\* the cache check: a present file counts only if it verifies (remote)
CheckCache(i) ==
    /\ At(i, "cache")
    /\ LET f == Top(i)
           fileExists == f.local \/ cache[f.templateRef] # "none"
           archiveExists ==
               /\ fileExists
               /\ ~f.local =>
                     verifyChecksum(getTemplateInfo(f.name), cache[f.templateRef])
       IN stack' = SetTop(i, [f EXCEPT !.pc = IF archiveExists THEN "extract"
                                                               ELSE "download"])
    /\ UNCHANGED <<status, token, locks, cache, extractDirs, ds, mgmtCont,
                   cfgVars, faults, eff, installs>>
    /\ UNCHANGED <<snapVars, supVars>>

\* download(t): pick the transport by isValidUrl of the configured download
\* URL (gateway = its answer); on the gateway path getTemplateUrl probes the
\* wrapped and the direct URL and ends the process if both fail
download(i, gateway, ok) ==
    /\ At(i, "download")
    /\ LET f == Top(i) IN
       IF gateway
       THEN /\ Fault(ok)
            /\ IF ok
               THEN /\ stack' = SetTop(i, [f EXCEPT !.pc = "doDownload",
                                                    !.attempts = 1])
                    /\ UNCHANGED status
               ELSE LogExit(i)
       ELSE /\ ok
            /\ stack' = SetTop(i, [f EXCEPT !.pc = "ipfs"])
            /\ UNCHANGED <<status, faults>>
    /\ UNCHANGED <<token, locks, cache, extractDirs, ds, mgmtCont, cfgVars,
                   eff, installs>>
    /\ UNCHANGED <<snapVars, supVars>>

DownloadOutcomes == {"reqerr", "neterr", "partial", "renamefail", "mismatch",
                     "ok"}

\* the error value doDownload returns for an outcome: a failed transfer
\* ("neterr" to the wrapped name, "partial" to CacheDir/<id> itself) returns
\* the variable err of the request preparation, which is nil at that point
doDownloadFails(outcome) ==
    CASE outcome = "reqerr"   -> TRUE
      [] outcome = "neterr"   -> FALSE
      [] outcome = "partial"  -> FALSE
      [] outcome = "mismatch" -> TRUE
      [] OTHER                -> FALSE

\* the file at CacheDir/<id> after doDownload
doDownloadFile(outcome, old) ==
    CASE outcome = "ok"         -> "orig"
      [] outcome = "mismatch"   -> "other"
      [] outcome = "partial"    -> "other"
      [] outcome = "renamefail" -> "none"
      [] OTHER                  -> old

\* the loop condition of downloadFromGateway after a round that returned err
Retry_Once(err, attempts) == err /\ attempts < 2
Retry(err, attempts) == err /\ attempts < maxDownloadAttempts

\* "if !verifyChecksum(template, templatePath) { return errors.New(...) }":
\* a transfer that ran to its end is followed by the verification of the
\* file it left
doDownloadVerifies(outcome, template, content) ==
    outcome \in {"ok", "mismatch"} => verifyChecksum(template, content)

\* one round of the loop of downloadFromGateway: doDownload, then the loop
\* condition "err != nil && attempts < maxDownloadAttempts" and the final
\* log.Check at Error level
downloadFromGateway(i, outcome) ==
    /\ At(i, "doDownload")
    /\ LET f == Top(i)
           failed == \/ doDownloadFails(outcome)
                     \/ ~doDownloadVerifies(outcome, getTemplateInfo(f.name),
                             doDownloadFile(outcome, cache[f.templateRef]))
       IN /\ cache' = [cache EXCEPT ![f.templateRef] = doDownloadFile(outcome, @)]
          /\ eff' = [eff EXCEPT ![i].download = TRUE]
          /\ IF outcome = "renamefail"
             THEN LogExit(i)
             ELSE IF ~failed
             THEN /\ stack' = SetTop(i, [f EXCEPT !.pc = "extract",
                                                  !.attempts = 0,
                                                  !.mismatches = 0])
                  /\ UNCHANGED status
             ELSE IF Retry(failed, f.attempts)
             THEN /\ stack' = SetTop(i,
                         [f EXCEPT !.attempts = @ + 1,
                                   !.mismatches =
                                       IF outcome \in {"ok", "mismatch"}
                                       THEN @ + 1 ELSE @])
                  /\ UNCHANGED status
             ELSE LogExit(i)
    /\ UNCHANGED <<token, locks, extractDirs, ds, mgmtCont, cfgVars, faults,
                   installs>>
    /\ UNCHANGED <<snapVars, supVars>>

IpfsOutcomes == {"notfound", "getfail", "mismatch", "ok"}

\* downloadViaLocalIPFSNode: every failure is fatal, nothing is retried
downloadViaLocalIPFSNode(i, outcome) ==
    /\ At(i, "ipfs")
    /\ LET f == Top(i) IN
       /\ cache' = [cache EXCEPT ![f.templateRef] =
                       CASE outcome = "ok"       -> "orig"
                         [] outcome = "mismatch" -> "other"
                         [] OTHER                -> @]
       /\ eff' = [eff EXCEPT ![i].download = TRUE]
       /\ IF outcome = "ok" /\ verifyChecksum(getTemplateInfo(f.name), "orig")
          THEN /\ stack' = SetTop(i, [f EXCEPT !.pc = "extract"])
               /\ UNCHANGED status
          ELSE LogExit(i)
    /\ UNCHANGED <<token, locks, extractDirs, ds, mgmtCont, cfgVars, faults,
                   installs>>
    /\ UNCHANGED <<snapVars, supVars>>

\* fs.Decompress(localArchive, extractDir), reading the config and, for a
\* local import, the rename of templateRef and of the extraction directory
\* the reference of a local import left as derived from the path
ExtractedRef_Path(f) == f.templateRef

\* "if local { templateRef = strings.Join([]string{templateName,
\* templateOwner, templateVersion}, ":") ... }": the reference of a local
\* import is the one declared in the extracted config
ExtractedRef(f) == IF f.local THEN ConfigTemplate(f.name) ELSE f.templateRef

Extract(i, ok) ==
    /\ At(i, "extract")
    /\ LET f == Top(i)
           content == cache[localArchive(f)]
           ref == ExtractedRef(f)
       IN IF content = "none"
          THEN /\ ~ok
               /\ LogExit(i)
               /\ UNCHANGED <<extractDirs, faults>>
          ELSE /\ Fault(ok)
               /\ IF ok
                  THEN /\ extractDirs' = extractDirs \cup {ref}
                       /\ stack' = SetTop(i, [f EXCEPT !.templateRef = ref,
                                                       !.archive = content,
                                                       !.pc = "isTemplate"])
                       /\ UNCHANGED status
                  ELSE /\ LogExit(i)
                       /\ UNCHANGED extractDirs
    /\ UNCHANGED <<token, locks, cache, ds, mgmtCont, cfgVars, eff, installs>>
    /\ UNCHANGED <<snapVars, supVars>>

\* "if container.IsTemplate(templateRef)": remove the directory and fail
CheckTemplate(i) ==
    /\ At(i, "isTemplate")
    /\ LET f == Top(i) IN
       IF IsTemplate(f.templateRef)
       THEN /\ extractDirs' = extractDirs \ {f.templateRef}
            /\ LogExit(i)
       ELSE /\ stack' = SetTop(i, [f EXCEPT !.pc = "parent"])
            /\ UNCHANGED <<status, extractDirs>>
    /\ UNCHANGED <<token, locks, cache, ds, mgmtCont, cfgVars, faults, eff,
                   installs>>
    /\ UNCHANGED <<snapVars, supVars>>

\* ParentRequired that never asks for the parent
ParentRequired_Never(parentRef, templateRef, auxDepList) ==
    /\ parentRef # templateRef
    /\ IsTemplate(parentRef)
    /\ ~stringInList(parentRef, auxDepList)

\* ParentRequired without the test of the queued set
ParentRequired_NoList(parentRef, templateRef, auxDepList) ==
    /\ parentRef # templateRef
    /\ ~IsTemplate(parentRef)

\* the test that decides whether the parent is imported first
ParentRequired(parentRef, templateRef, auxDepList) ==
    /\ parentRef # templateRef
    /\ ~IsTemplate(parentRef)
    /\ ~stringInList(parentRef, auxDepList)

\* the queued set with the parent only
Queued_ParentOnly(auxDepList, parentRef, templateRef) ==
    auxDepList \cup {parentRef}

\* "auxDepList = append(auxDepList, parentRef, templateRef)"
Queued(auxDepList, parentRef, templateRef) ==
    auxDepList \cup {parentRef, templateRef}

\* reading the parent of the config and the recursive call of LxcImport
ResolveParent(i) ==
    /\ At(i, "parent")
    /\ LET f == Top(i)
           parentRef == ConfigParent(f.templateRef)
           auxDepList == Queued(f.auxDepList, parentRef, f.templateRef)
       IN IF ParentRequired(parentRef, f.templateRef, f.auxDepList)
          THEN stack' = [stack EXCEPT ![i] =
                   Append(SubSeq(@, 1, Depth(i) - 1),
                          [f EXCEPT !.pc = "installing",
                                    !.auxDepList = auxDepList])
                   \o <<NewFrame(parentRef, auxDepList)>>]
          ELSE stack' = SetTop(i, [f EXCEPT !.pc = "installing"])
    /\ UNCHANGED <<status, token, locks, cache, extractDirs, ds, mgmtCont,
                   cfgVars, faults, eff, installs>>
    /\ UNCHANGED <<snapVars, supVars>>

\* container.Destroy(name, true): snapshots, child datasets and the parent
\* dataset are removed; with silent = true its errors are dropped
Destroy(name, ok) ==
    IF ok THEN [ds EXCEPT ![name] = NoDataset] ELSE ds

\* "Installing template": an existing dataset is destroyed, which waits for
\* the lock of Destroy and gives it back, and install is called
PreInstall(i, ok) ==
    /\ At(i, "installing")
    /\ LET f == Top(i) IN
       /\ IF DatasetExists(f.templateRef)
          THEN /\ LockFree(i, DestroyKey)
               /\ Fault(ok)
               /\ ds' = Destroy(f.templateRef, ok)
               /\ eff' = [eff EXCEPT ![i].mutate = TRUE]
          ELSE /\ ok
               /\ UNCHANGED <<ds, eff, faults>>
       /\ installs' = [installs EXCEPT ![i][f.templateRef].calls = @ + 1]
       /\ stack' = SetTop(i, [f EXCEPT !.pc = "install", !.step = 0])
    /\ UNCHANGED <<status, token, locks, cache, extractDirs, mgmtCont,
                   cfgVars>>
    /\ UNCHANGED <<snapVars, supVars>>

InstallSteps == 10

\* whether the storage layer can carry out step k of install on the dataset
\* tree d of the template, and what the step does to it
StepPossible(k, d) ==
    CASE k = 0           -> ~d.exists
      [] k \in 1..4      -> d.exists /\ ChildDatasets[k] \notin d.recv
      [] k \in 5..8      -> ChildDatasets[k - 4] \in d.recv
      [] OTHER           -> d.exists

StepResult(k, d) ==
    CASE k = 0           -> [d EXCEPT !.exists = TRUE]
      [] k \in 1..4      -> [d EXCEPT !.recv = @ \cup {ChildDatasets[k]}]
      [] k \in 5..8      -> [d EXCEPT !.ro = @ \cup {ChildDatasets[k - 4]}]
      [] OTHER           -> [d EXCEPT !.cfg = TRUE]

\* the steps of install run in three stretches: dataset and deltas (0..4),
\* read-only marks (5..8), config (9)
StretchEnd(k) == IF k < 5 THEN 5 ELSE IF k < 9 THEN 9 ELSE InstallSteps

\* the steps of install carried on after the step that fails
RECURSIVE RunSteps_Through(_, _, _, _)
RunSteps_Through(k, stop, failAt, d) ==
    IF k = stop THEN <<d, k, FALSE>>
    ELSE IF ~StepPossible(k, d) THEN <<d, k, TRUE>>
    ELSE IF k = failAt
        THEN <<RunSteps_Through(k + 1, stop, InstallSteps, d)[1], k, TRUE>>
    ELSE RunSteps_Through(k + 1, stop, failAt, StepResult(k, d))

\* steps k .. stop-1 of install on d, ending at the first step that fails:
\* the step failAt (an error of the storage layer) or one that is not
\* possible.  The result is <<dataset tree, step reached, error>>.
RECURSIVE RunSteps(_, _, _, _)
RunSteps(k, stop, failAt, d) ==
    IF k = stop THEN <<d, k, FALSE>>
    ELSE IF k = failAt \/ ~StepPossible(k, d) THEN <<d, k, TRUE>>
    ELSE RunSteps(k + 1, stop, failAt, StepResult(k, d))

\* install(templateName): CreateDataset, four ReceiveStream, four
\* SetDatasetReadOnly, Copy of the config; the first error is returned and
\* LxcImport does not look at the value install returns
install(i, failAt) ==
    /\ At(i, "install")
    /\ LET f == Top(i)
           r == f.templateRef
           stop == StretchEnd(f.step)
           run == RunSteps(f.step, stop, failAt, ds[r])
           injected == run[3] /\ run[2] = failAt /\ StepPossible(failAt, run[1])
       IN /\ failAt \in (f.step .. stop - 1) \cup {InstallSteps}
          /\ failAt # InstallSteps => injected
          /\ Fault(~injected)
          /\ ds' = [ds EXCEPT ![r] = run[1]]
          /\ eff' = [eff EXCEPT ![i].mutate = @ \/ run[1] # ds[r],
                                ![i].installErr = @ \/ run[3]]
          /\ IF run[3] \/ run[2] = InstallSteps
             THEN /\ stack' = SetTop(i, [f EXCEPT !.pc = "cleanup", !.step = 0,
                                                  !.installErr = run[3]])
                  /\ installs' = [installs EXCEPT ![i][r].done = @ + 1]
             ELSE /\ stack' = SetTop(i, [f EXCEPT !.step = run[2]])
                  /\ UNCHANGED installs
    /\ UNCHANGED <<status, token, locks, cache, extractDirs, mgmtCont,
                   cfgVars>>
    /\ UNCHANGED <<snapVars, supVars>>

\* the removal of the archive without the test of local
RemoveArchive_Always(f) ==
    [cache EXCEPT ![localArchive(f)] = "none"]

\* "if !local { os.Remove(localArchive) }"
RemoveArchive(f) ==
    IF ~f.local THEN [cache EXCEPT ![localArchive(f)] = "none"] ELSE cache

\* after install: the extraction directory and (remote) the cached archive
\* are removed, then initManagement or updateContainerConfig, then return
Cleanup(i, outcome) ==
    /\ At(i, "cleanup")
    /\ LET f == Top(i) IN
       /\ extractDirs' = extractDirs \ {f.templateRef}
       /\ cache' = RemoveArchive(f)
       /\ IF ~f.local /\ f.name = Management
          THEN initManagement(i, outcome)
          ELSE /\ outcome # "noclone"
               /\ Fault(outcome = "ok")
               /\ IF outcome = "ok"
                  THEN Return(i) /\ locks' = Unlocked(i, f)
                  ELSE LogExit(i) /\ UNCHANGED locks
               /\ UNCHANGED <<mgmtCont, eff>>
    /\ UNCHANGED <<token, ds, cfgVars, installs>>
    /\ UNCHANGED <<snapVars, supVars>>

\* the states of a container that the code compares with
Running == "RUNNING"
Stopped == "STOPPED"

(***************************************************************************)
(* The destroy command: DestroyContainer and DestroyTemplate, both around  *)
(* Destroy(name, false).                                                   *)
(***************************************************************************)
\* what "destroy" is called with: the containers and a template
DestroyContainers == {"web1", "web2"}
DestroyNames == DestroyContainers \cup {"A"}

\* a new process is started with "destroy <name>"
StartDestroy(i, name) ==
    /\ status[i] = "new"
    /\ i > 1 => status[i - 1] # "new"
    /\ Cardinality(Live) < conc
    /\ status' = [j \in Invs |-> IF j = i THEN "running"
                                ELSE IF Ended(j) THEN "over" ELSE status[j]]
    /\ stack' = [stack EXCEPT ![i] =
                    <<[NewFrame(name, {}) EXCEPT !.pc = "destroy",
                                                 !.templateRef = name]>>]
    /\ token' = [j \in Invs |-> IF j = i \/ Ended(j) THEN FALSE ELSE token[j]]
    /\ eff' = [j \in Invs |-> IF Ended(j) THEN NoEff ELSE eff[j]]
    /\ UNCHANGED <<locks, cache, extractDirs, ds, mgmtCont, cfgVars, faults,
                   installs>>
    /\ UNCHANGED <<snapVars, supVars>>

\* DestroyContainer shuts the container down; DestroyTemplate returns an
\* error for a name that is no template; then Destroy is called
DestroyBegin(i) ==
    /\ At(i, "destroy")
    /\ LET f == Top(i) IN
       IF f.name \in DestroyContainers
       THEN /\ cstate' = [cstate EXCEPT ![f.name] = Stopped]
            /\ stack' = SetTop(i, [f EXCEPT !.pc = "destroyLock",
                                            !.attempts = 1])
            /\ UNCHANGED status
       ELSE /\ IF IsTemplate(f.name)
               THEN /\ stack' = SetTop(i, [f EXCEPT !.pc = "destroyLock",
                                                    !.attempts = 3])
                    /\ UNCHANGED status
               ELSE LogExit(i)
            /\ UNCHANGED cstate
    /\ UNCHANGED <<token, locks, cache, extractDirs, ds, mgmtCont, cfgVars,
                   faults, eff, installs>>
    /\ UNCHANGED <<snaps, cds, last, supVars>>

\* the spin loop of Destroy ends when common.LockFile("lxc", "destroy")
\* succeeds
LockDestroy(i) ==
    /\ At(i, "destroyLock")
    /\ LockFree(i, DestroyKey)
    /\ locks' = [locks EXCEPT ![DestroyKey] = i]
    /\ stack' = SetTop(i, [Top(i) EXCEPT !.pc = "destroying"])
    /\ UNCHANGED <<status, token, cache, extractDirs, ds, mgmtCont, cfgVars,
                   faults, eff, installs>>
    /\ UNCHANGED <<snapVars, supVars>>

\* the rest of Destroy(name, false) and its deferred Unlock: the datasets
\* are removed, or the first error is returned; DestroyContainer calls
\* Destroy up to 3 times, DestroyTemplate once
DestroyDatasets(i, ok) ==
    /\ At(i, "destroying")
    /\ LET f == Top(i)
           present == IF f.name \in DestroyContainers
                      THEN cds[f.name].exists ELSE DatasetExists(f.name)
       IN /\ ~present => ~ok
          /\ locks' = [locks EXCEPT ![DestroyKey] = 0]
          /\ IF f.name \in DestroyContainers
             THEN /\ cds' = IF ok THEN [cds EXCEPT ![f.name] = NoDataset]
                                  ELSE cds
                  /\ UNCHANGED ds
             ELSE /\ ds' = Destroy(f.name, ok)
                  /\ UNCHANGED cds
          /\ IF ok THEN Return(i)
             ELSE IF f.attempts < 3
             THEN /\ stack' = SetTop(i, [f EXCEPT !.pc = "destroyLock",
                                                  !.attempts = @ + 1])
                  /\ UNCHANGED status
             ELSE LogExit(i)
    /\ UNCHANGED <<token, cache, extractDirs, mgmtCont, cfgVars, faults, eff,
                   installs>>
    /\ UNCHANGED <<snaps, cstate, last, supVars>>

(***************************************************************************)
(* Part II: the snapshot commands.  Each command is one process that runs  *)
(* alone from its first check to its exit; "last" records what it was      *)
(* called with, the collaborator calls it issued in order, and how it      *)
(* ended.                                                                  *)
(***************************************************************************)
ContNames == {"web1", "web2"}
\* what the snapshot commands are called with
SnapContainers == {" web1", "nope", ""}
SnapPartitions == {" RootFS", "home", "var", "opt", "config", "all", "tmp", ""}
SnapLabels == {" L1", ""}
\* what "receive" is called with, and the files a bundle can hold
RecvContainers == {" web2", ""}
SourceFiles == {"web2.tar.gz", ""}
BundleFiles == {"rootfs.delta", "home.delta", "var.delta", "opt.delta",
                "config"}

\* strings.TrimSpace and strings.ToLower on the strings above
TrimSpace(s) ==
    CASE s = " web1" -> "web1"
      [] s = " web2" -> "web2"
      [] s = " RootFS" -> "RootFS"
      [] s = " L1" -> "L1"
      [] s = " 1.0.0" -> "1.0.0"
      [] OTHER -> s

ToLower(s) ==
    CASE s = "RootFS" -> "rootfs"
      [] s = "L1" -> "l1"
      [] OTHER -> s

\* the name with "all" treated as the name of a dataset
getSnapshotName_AllDataset(container, partition, label) ==
    IF label = ""
    THEN IF partition = "config" THEN container
                                 ELSE container \o "/" \o partition
    ELSE IF partition = "config"
         THEN container \o "@" \o label
         ELSE container \o "/" \o partition \o "@" \o label

getSnapshotName(container, partition, label) ==
    IF label = ""
    THEN IF partition = "config" THEN container
                                 ELSE container \o "/" \o partition
    ELSE IF partition = "config" \/ partition = "all"
         THEN container \o "@" \o label
         ELSE container \o "/" \o partition \o "@" \o label

\* TRUE when checkArgument lets the partition pass
checkPartitionName(partition) ==
    /\ partition # ""
    /\ partition \in Parts \/ partition = "config" \/ partition = "all"

\* fs.DatasetExists on the name of a snapshot
SnapshotExists(name) == name \in snaps

IsContainer(name) ==
    /\ name \in ContNames
    /\ "rootfs" \in cds[name].recv
    /\ "rootfs" \notin cds[name].ro

State(name) == IF name \in ContNames THEN cstate[name] ELSE "UNKNOWN"

Call(fn, on) == [call |-> fn, on |-> on]
Calls(log) == {log[k].call : k \in 1..Len(log)}

NoCommand == [op |-> "none", container |-> "", partition |-> "", label |-> "",
              stop |-> FALSE, ran |-> FALSE, files |-> {}, result |-> "ok",
              msg |-> "", probe |-> <<>>, log |-> <<>>, args |-> <<>>]

\* the calls of fs.DatasetExists that container.IsContainer has made when
\* command op ends: the commands on one snapshot reach it after the checks
\* of their three arguments, "list" before the check of the partition,
\* "export" at once, "receive" never
IsContainerProbe(op, c, p, l) ==
    LET probe == <<Call("fs.DatasetExists", c \o "/rootfs")>>
    IN CASE op \in {"create", "remove", "rollback"} ->
                IF c # "" /\ checkPartitionName(p) /\ l # ""
                    THEN probe ELSE <<>>
         [] op \in {"list", "send"} -> IF c # "" THEN probe ELSE <<>>
         [] op = "export" -> probe
         [] OTHER -> <<>>

\* no command runs: the next one can be given
Idle == last.op = "none"

\* the command ends: result "error" is an exit through checkArgument,
\* checkState or log.Error, after which no deferred call runs
\* args: what the command was called with, kept for "export"
EndRecord(op, c, p, l, stop, files, msg, log) ==
    [op |-> op, container |-> c, partition |-> p, label |-> l,
     stop |-> stop, ran |-> State(c) = Running, files |-> files,
     result |-> IF msg = "" THEN "ok" ELSE "error",
     msg |-> msg, probe |-> IsContainerProbe(op, c, p, l),
     log |-> log, args |-> <<>>]

Ends(op, c, p, l, stop, files, msg, log) ==
    /\ UNCHANGED <<importVars, supVars>>
    /\ last' = EndRecord(op, c, p, l, stop, files, msg, log)

EndsExport(args, name, msg, log) ==
    /\ UNCHANGED <<importVars, supVars>>
    /\ last' = [EndRecord("export", name, "", "", FALSE, {}, msg, log)
                    EXCEPT !.args = args]

\* the checks all three commands on snapshots begin with; "" when they pass
CommonChecks(c, p, l) ==
    IF c = "" THEN "Invalid container name"
    ELSE IF ~checkPartitionName(p) THEN "Invalid partition"
    ELSE IF l = "" THEN "Invalid snapshot label"
    ELSE IF ~IsContainer(c) THEN "Container not found"
    ELSE ""

\* the snapshots "zfs snapshot -r", "zfs destroy -r" act on
Recursive(c, l) ==
    {c \o "@" \o l} \cup {c \o "/" \o part \o "@" \o l : part \in Parts}

\* CreateChecks without the test that the snapshot does not exist yet
CreateChecks_NoExists(c, p, l) ==
    CommonChecks(c, p, l)

\* the checks of CreateSnapshot before it acts; "" when they pass
CreateChecks(c, p, l) ==
    IF CommonChecks(c, p, l) # "" THEN CommonChecks(c, p, l)
    ELSE IF SnapshotExists(getSnapshotName(c, p, l))
         THEN "Snapshot already exists"
    ELSE ""

CreateSnapshot(container, partition, label, stopContainer, ok) ==
    /\ Idle
    /\ LET c == TrimSpace(container)
           p == ToLower(TrimSpace(partition))
           l == ToLower(TrimSpace(label))
           snapshot == getSnapshotName(c, p, l)
           targets == IF p = "all" THEN Recursive(c, l) ELSE {snapshot}
           stops == stopContainer /\ State(c) = Running
           stopLog == IF stops THEN <<Call("LxcStop", c)>> ELSE <<>>
           startLog == IF stops THEN <<Call("LxcStart", c)>> ELSE <<>>
           prim == <<Call("fs.CreateSnapshot", snapshot)>>
       IN IF CreateChecks(c, p, l) # ""
          THEN /\ ok
               /\ Ends("create", c, p, l, stopContainer, {},
                       CreateChecks(c, p, l), <<>>)
               /\ UNCHANGED <<snaps, cds, cstate>>
          ELSE \* the primitive refuses to snapshot what has a snapshot
               /\ ok => targets \cap snaps = {}
               /\ IF ok
                  THEN /\ snaps' = snaps \cup targets
                       /\ Ends("create", c, p, l, stopContainer, {}, "",
                               stopLog \o prim \o startLog)
                       /\ UNCHANGED cstate
                  ELSE /\ snaps' = snaps
                       /\ Ends("create", c, p, l, stopContainer, {},
                               "Failed to create snapshot", stopLog \o prim)
                       /\ cstate' = IF stops
                                    THEN [cstate EXCEPT ![c] = Stopped]
                                    ELSE cstate
               /\ UNCHANGED cds

RemoveSnapshot(container, partition, label, ok) ==
    /\ Idle
    /\ LET c == TrimSpace(container)
           p == ToLower(TrimSpace(partition))
           l == ToLower(TrimSpace(label))
           snapshot == getSnapshotName(c, p, l)
           targets == IF p = "all" THEN Recursive(c, l) ELSE {snapshot}
           prim == <<Call("fs.RemoveDataset", snapshot)>>
       IN IF CommonChecks(c, p, l) # ""
          THEN /\ ok
               /\ Ends("remove", c, p, l, FALSE, {}, CommonChecks(c, p, l), <<>>)
               /\ UNCHANGED <<snaps, cds, cstate>>
          ELSE /\ snaps' = IF ok THEN snaps \ targets ELSE snaps
               /\ Ends("remove", c, p, l, FALSE, {},
                       IF ok THEN "" ELSE "Failed to remove snapshot", prim)
               /\ UNCHANGED <<cds, cstate>>

\* the checks of ListSnapshots before it lists; "" when they pass
ListChecks(c, p) ==
    IF p # "" /\ c = "" THEN "Please, specify container name"
    ELSE IF c # "" /\ ~IsContainer(c) THEN "Container not found"
    ELSE IF p # "" /\ ~checkPartitionName(p) THEN "Invalid partition"
    ELSE ""

ListSnapshots(container, partition, ok) ==
    /\ Idle
    /\ LET c == TrimSpace(container)
           p == ToLower(TrimSpace(partition))
           target == IF c = "" THEN ""
                     ELSE IF p # "" THEN getSnapshotName(c, p, "")
                     ELSE c
       IN IF ListChecks(c, p) # ""
          THEN /\ ok
               /\ Ends("list", c, p, "", FALSE, {}, ListChecks(c, p), <<>>)
          ELSE Ends("list", c, p, "", FALSE, {},
                    IF ok THEN "" ELSE "Failed to list snapshots",
                    <<Call("fs.ListSnapshots", target)>>)
    /\ UNCHANGED <<snaps, cds, cstate>>

\* the order "zfs list" prints the datasets of a container in: the
\* container, then its children by name
ListOrder == <<"", "/home", "/opt", "/rootfs", "/var">>

RECURSIVE ListFrom(_, _, _)
ListFrom(k, c, l) ==
    IF k > Len(ListOrder) THEN <<>>
    ELSE (IF (c \o ListOrder[k] \o "@" \o l) \in snaps
          THEN <<c \o ListOrder[k] \o "@" \o l>> ELSE <<>>)
         \o ListFrom(k + 1, c, l)

\* the listing restricted to the datasets of the partitions
ListSnapshotNamesOnly_Parts(c, l) == ListFrom(2, c, l)

\* the lines of fs.ListSnapshotNamesOnly(container) that end in "@"+label
ListSnapshotNamesOnly(c, l) == ListFrom(1, c, l)

\* the per-partition check runs only in the callback, that is only when the
\* name getSnapshotName gives for the command does not exist
RollbackChecks(c, p, l) ==
    IF CommonChecks(c, p, l) # "" THEN CommonChecks(c, p, l)
    ELSE IF SnapshotExists(getSnapshotName(c, p, l)) THEN ""
    ELSE IF p # "all" THEN "Snapshot does not exist"
    ELSE IF \E part \in Parts : ~SnapshotExists(getSnapshotName(c, part, l))
         THEN "Snapshot does not exist"
    ELSE ""

\* failAt = 0: every primitive succeeds; failAt = k: the k-th rollback
\* fails; listOk: the listing of the snapshots succeeds
MaxList == 5
RollbackEnvs == {[listOk |-> FALSE, failAt |-> 0]}
                    \cup {[listOk |-> TRUE, failAt |-> k] : k \in 0..MaxList}

RollbackToSnapshot(container, partition, label, forceRollback, stopContainer, listOk, failAt) ==
    /\ Idle
    /\ LET c == TrimSpace(container)
           p == ToLower(TrimSpace(partition))
           l == ToLower(TrimSpace(label))
           snapshot == getSnapshotName(c, p, l)
           stops == stopContainer /\ State(c) = Running
           stopLog == IF stops THEN <<Call("LxcStop", c)>> ELSE <<>>
           startLog == IF stops THEN <<Call("LxcStart", c)>> ELSE <<>>
           list == IF p = "all" THEN ListSnapshotNamesOnly(c, l)
                                ELSE <<snapshot>>
           n == IF failAt = 0 THEN Len(list) ELSE failAt
           prims == [k \in 1..n |->
                        Call(IF forceRollback THEN "fs.RollbackToSnapshot -r"
                                              ELSE "fs.RollbackToSnapshot",
                             list[k])]
           failed == ~listOk \/ failAt # 0
       IN IF RollbackChecks(c, p, l) # ""
          THEN /\ listOk /\ failAt = 0 /\ ~forceRollback
               /\ Ends("rollback", c, p, l, stopContainer, {},
                       RollbackChecks(c, p, l), <<>>)
               /\ UNCHANGED <<snaps, cds, cstate>>
          ELSE /\ listOk \/ (p = "all" /\ failAt = 0)
               /\ failAt <= Len(list)
               /\ Ends("rollback", c, p, l, stopContainer, {},
                       IF ~listOk THEN "Failed to list snapshots"
                       ELSE IF failAt # 0 THEN "Failed to rollback to snapshot"
                       ELSE "",
                       IF ~listOk THEN stopLog
                       ELSE IF failAt # 0 THEN stopLog \o prims
                       ELSE stopLog \o prims \o startLog)
               /\ cstate' = IF stops /\ failed
                            THEN [cstate EXCEPT ![c] = Stopped]
                            ELSE cstate
               /\ UNCHANGED <<snaps, cds>>

\* ReceiveChecks without the test of the config file
ReceiveChecks_DeltasOnly(files) ==
    IF \E part \in Parts : (part \o ".delta") \notin files
        THEN "Snapshot file for partition not found"
    ELSE ""

\* the checks of the extracted bundle; "" when they pass
ReceiveChecks(files) ==
    IF \E part \in Parts : (part \o ".delta") \notin files
        THEN "Snapshot file for partition not found"
    ELSE IF "config" \notin files THEN "Config file not found"
    ELSE ""

\* the steps after the checks: 1..4 receive the stream of ChildDatasets[k],
\* 5 copies the config; a step whose file is missing fails
RecvStepFile(k) == IF k <= 4 THEN ChildDatasets[k] \o ".delta" ELSE "config"
RecvStepCall(k, c) ==
    IF k <= 4 THEN Call("fs.ReceiveStream", c \o "/" \o ChildDatasets[k])
              ELSE Call("fs.Copy", c)

RecvFirstFail(files, failAt) ==
    LET missing == {k \in 1..5 : RecvStepFile(k) \notin files}
        fails == missing \cup (IF failAt = 0 THEN {} ELSE {failAt})
    IN IF fails = {} THEN 0
       ELSE CHOOSE k \in fails : \A j \in fails : k <= j

\* where: the place the source file is found at ("path", "cache") or
\* "none"; unpack: fs.Decompress succeeds; files: what the bundle holds;
\* failAt: the step after the checks that fails, 0 for none
RecvEnv(where, unpack, files, failAt) ==
    [where |-> where, unpack |-> unpack, files |-> files, failAt |-> failAt]
RecvEnvs ==
    {RecvEnv("none", TRUE, BundleFiles, 0)}
    \cup {RecvEnv(w, FALSE, {}, 0) : w \in {"path", "cache"}}
    \cup {RecvEnv(w, TRUE, BundleFiles \ {f}, 0) :
             w \in {"path", "cache"}, f \in BundleFiles}
    \cup {RecvEnv(w, TRUE, BundleFiles, k) : w \in {"path", "cache"}, k \in 0..5}

ReceiveContainerSnapshots(container, sourceFile, where, unpack, files, failAt) ==
    /\ Idle
    /\ LET c == TrimSpace(container)
           src == TrimSpace(sourceFile)
           stop == RecvFirstFail(files, failAt)
           done == IF stop = 0 THEN 5 ELSE stop - 1
           create == IF cds[c].exists THEN <<>>
                     ELSE <<Call("fs.CreateDataset", c)>>
           steps == [k \in 1..(IF stop = 0 THEN 5 ELSE stop)
                        |-> RecvStepCall(k, c)]
           unpackLog == <<Call("fs.Decompress", src)>>
           early == IF c = "" THEN "Invalid container name"
                    ELSE IF src = "" THEN "Invalid path to snapshots file"
                    ELSE IF where = "none" THEN "File not found"
                    ELSE ""
       IN IF early # ""
          THEN /\ failAt = 0 /\ files = BundleFiles /\ where # "cache"
               /\ Ends("receive", c, "", "", FALSE, files, early, <<>>)
               /\ UNCHANGED <<snaps, cds, cstate>>
          ELSE IF ~unpack
          THEN /\ files = {}
               /\ Ends("receive", c, "", "", FALSE, files,
                       "Decompressing snapshots file", unpackLog)
               /\ UNCHANGED <<snaps, cds, cstate>>
          ELSE IF ReceiveChecks(files) # ""
          THEN /\ Ends("receive", c, "", "", FALSE, files, ReceiveChecks(files),
                       unpackLog)
               /\ UNCHANGED <<snaps, cds, cstate>>
          ELSE /\ cds' = [cds EXCEPT ![c] =
                            [@ EXCEPT !.exists = TRUE,
                                      !.recv = @ \cup {ChildDatasets[k] :
                                                   k \in 1..(IF done > 4 THEN 4
                                                             ELSE done)},
                                      !.cfg = @ \/ done = 5]]
               /\ Ends("receive", c, "", "", FALSE, files,
                       IF stop = 0 THEN ""
                       ELSE IF stop <= 4 THEN "Receiving snapshots for partition"
                       ELSE "Copying config file",
                       unpackLog \o create \o steps)
               /\ UNCHANGED <<snaps, cstate>>

\* the process of the command is gone
Exit ==
    /\ last.op # "none"
    /\ last' = NoCommand
    /\ UNCHANGED <<snaps, cds, cstate, importVars, supVars>>

\* between two commands the container is started or stopped by other means
LxcStartStop(name, state) ==
    /\ Idle
    /\ IsContainer(name)
    /\ cstate[name] # state
    /\ cstate' = [cstate EXCEPT ![name] = state]
    /\ UNCHANGED <<snaps, cds, last, importVars, supVars>>

(***************************************************************************)
(* LxcExport, the command that packs a container as a template.            *)
(***************************************************************************)
\* what "export" is called with
ExportNames == {"web1", "nope"}
ExportNewNames == {"", "tpl"}
ExportVersions == {"", " 1.0.0", "1.0"}
ExportSizes == {"", "large", "giant"}
ExportTokens == {"", "tok"}
\* the names under which the metadata service holds a template of the
\* owner of the token in the version asked for
ExportCdns == SUBSET {"web1", "tpl"}

allsizes == {"tiny", "small", "medium", "large", "huge"}
\* versionRx.MatchString on the versions above
versionRx(version) == version = "1.0.0"

\* parentRef: subutai.parent, subutai.parent.owner and
\* subutai.parent.version of the container's config joined by ":"
parentVersion == "0.4.5"
parentRef(name) == "debian:subutai:" \o parentVersion

\* the name the template is published under
theName(name, newname) == IF newname # "" THEN newname ELSE name

\* the template is looked up under the name of the container, whatever the
\* new name
templateExists_OldName(name, newname, cdn) == name \in cdn

\* templateExists(theName, theOwner, theVersion): the service answers 200 OK
templateExists(name, newname, cdn) == theName(name, newname) \in cdn

\* the directory the template is built in
ExportDst(name, newname, version) ==
    theName(name, newname) \o "-subutai-template_"
        \o (IF version = "" THEN parentVersion ELSE version)

\* the size passed on as it is given
pSize_Raw(prefsize) == prefsize

\* "pSize := "tiny"; for _, s := range allsizes { if prefsize == s { pSize =
\* prefsize } }"
pSize(prefsize) == IF prefsize \in allsizes THEN prefsize ELSE "tiny"

\* the stream sent the other way round
Send_Reversed(from, to, file) ==
    [call |-> "fs.SendStream", on |-> from, from |-> to, into |-> file]

\* fs.SendStream(from, to, file) as an entry of the log
Send(from, to, file) ==
    [call |-> "fs.SendStream", on |-> to, from |-> from, into |-> file]

\* the steps of LxcExport whose error ends the command: 2k-1 the snapshot
\* and 2k the delta of ChildDatasets[k], 9 the copy of the config, 10 the
\* upload
ExportSteps == 10

\* the checks LxcExport begins with; "" when they pass
ExportChecks(name, tok, version, onCdn) ==
    IF ~IsContainer(name) THEN "Container not found"
    ELSE IF tok = "" THEN "Missing CDN token"
    ELSE IF version # "" /\ ~versionRx(version)
        THEN "Version must be in form X.Y.Z"
    ELSE IF onCdn THEN "Template already exists on CDN"
    ELSE ""

\* the calls of the loop over the partitions, from ChildDatasets[k] on, when
\* step failAt fails (0: none does)
RECURSIVE ExportVolCalls(_, _, _, _, _)
ExportVolCalls(k, name, parent, dst, failAt) ==
    IF k > Len(ChildDatasets) THEN <<>>
    ELSE LET snapshot == name \o "/" \o ChildDatasets[k] \o "@now"
             rm == IF SnapshotExists(snapshot)
                   THEN <<Call("fs.RemoveDataset", snapshot)>> ELSE <<>>
             cr == <<Call("fs.CreateSnapshot", snapshot)>>
             snd == <<Send(parent \o "/" \o ChildDatasets[k] \o "@now",
                           snapshot,
                           dst \o "/deltas/" \o ChildDatasets[k] \o ".delta")>>
         IN IF failAt = 2 * k - 1 THEN rm \o cr
            ELSE IF failAt = 2 * k THEN rm \o cr \o snd
            ELSE rm \o cr \o snd
                    \o ExportVolCalls(k + 1, name, parent, dst, failAt)

\* the "@now" snapshots the loop has removed and those it has created
ExportRemoved(name, failAt) ==
    {name \o "/" \o ChildDatasets[k] \o "@now" :
        k \in {j \in 1..4 : failAt = 0 \/ failAt > 8 \/ 2 * j - 1 <= failAt}}
ExportCreated(name, failAt) ==
    {name \o "/" \o ChildDatasets[k] \o "@now" :
        k \in {j \in 1..4 : failAt = 0 \/ failAt > 2 * j - 1}}

LxcExport(name, newname, ver, prefsize, tok, local, cdn, failAt) ==
    /\ Idle
    /\ LET version == TrimSpace(ver)
           onCdn == templateExists(name, newname, cdn)
           args == [newname |-> newname, version |-> ver,
                    prefsize |-> prefsize, token |-> tok, local |-> local,
                    cdn |-> cdn]
           wasRunning == State(name) = Running
           stopLog == IF wasRunning THEN <<Call("LxcStop", name)>> ELSE <<>>
           clean == <<Call("cleanupFS", name \o "/var/log"),
                      Call("cleanupFS", name \o "/var/cache")>>
           \* State(name) at line 399: the container does not run, either
           \* because it was stopped above or because it never ran
           startLog == IF Stopped # Running
                       THEN <<Call("LxcStart", name)>> ELSE <<>>
           pack == stopLog \o clean
                   \o ExportVolCalls(1, name, parentRef(name),
                                     ExportDst(name, newname, version), failAt)
           conf == <<Call("fs.Copy", name)>>
           rest == <<[call |-> "updateTemplateConfig", on |-> name,
                      size |-> pSize(prefsize)]>> \o startLog
                   \o <<Call("fs.Compress", name)>>
           up == IF local THEN <<>> ELSE <<Call("upload", name)>>
           final == IF wasRunning THEN <<Call("LxcStart", name)>>
                                  ELSE <<Call("LxcStop", name)>>
       IN IF ExportChecks(name, tok, version, onCdn) # ""
          THEN /\ failAt = 0
               /\ EndsExport(args, name,
                       ExportChecks(name, tok, version, onCdn), <<>>)
               /\ UNCHANGED <<snaps, cds, cstate>>
          ELSE /\ failAt = ExportSteps => ~local
               /\ snaps' = (snaps \ ExportRemoved(name, failAt))
                              \cup ExportCreated(name, failAt)
               /\ EndsExport(args, name,
                       IF failAt = 0 THEN ""
                       ELSE IF failAt = ExportSteps
                           THEN "Failed to upload template"
                       ELSE IF failAt = 9 THEN "Copying config file"
                       ELSE IF failAt % 2 = 1 THEN "Creating snapshot"
                       ELSE "Sending stream for partition",
                       IF failAt = 0 THEN pack \o conf \o rest \o up \o final
                       ELSE IF failAt = ExportSteps
                           THEN pack \o conf \o rest \o up
                       ELSE IF failAt = 9 THEN pack \o conf
                       ELSE pack)
               /\ cstate' = [cstate EXCEPT ![name] =
                               IF failAt = 0
                               THEN (IF wasRunning THEN Running ELSE Stopped)
                               ELSE IF failAt = ExportSteps THEN Running
                               ELSE Stopped]
               /\ UNCHANGED cds

(***************************************************************************)
(* SendContainerSnapshots, the command that dumps the deltas of labelled   *)
(* snapshots of a container into a bundle.                                 *)
(***************************************************************************)
\* what "send" is called with
SendContainers == {" web1", "nope", ""}
SendDirs == {"/tmp", ""}
SendLabels == {<<>>, <<"l1">>, <<"l3">>, <<"l1", "l2">>, <<"l2", "l1">>,
               <<"l1", "">>, <<"l1", "l2", "l1">>}

EndsSend(args, c, msg, log) ==
    /\ UNCHANGED <<importVars, supVars>>
    /\ last' = [EndRecord("send", c, "", "", FALSE, {}, msg, log)
                    EXCEPT !.args = args]

\* SendChecks without the test of the second label's snapshots
SendChecks_FirstLabel(c, d, dirExists, labels) ==
    IF c = "" THEN "Invalid container name"
    ELSE IF ~IsContainer(c) THEN "Container not found"
    ELSE IF d = "" THEN "Invalid destination directory"
    ELSE IF ~dirExists THEN "Destination directory not found"
    ELSE IF Len(labels) \notin {1, 2} THEN "Invalid number of snapshot labels"
    ELSE IF \E k \in 1..Len(labels) : labels[k] = ""
        THEN "Invalid snapshot label"
    ELSE IF \E part \in Parts :
               ~SnapshotExists(getSnapshotName(c, part, labels[1]))
        THEN "Snapshot does not exist"
    ELSE ""

\* the checks of SendContainerSnapshots before it creates the bundle's
\* directory; "" when they pass
SendChecks(c, d, dirExists, labels) ==
    IF c = "" THEN "Invalid container name"
    ELSE IF ~IsContainer(c) THEN "Container not found"
    ELSE IF d = "" THEN "Invalid destination directory"
    ELSE IF ~dirExists THEN "Destination directory not found"
    ELSE IF Len(labels) \notin {1, 2} THEN "Invalid number of snapshot labels"
    ELSE IF \E k \in 1..Len(labels) : labels[k] = ""
        THEN "Invalid snapshot label"
    ELSE IF \E k \in 1..Len(labels), part \in Parts :
               ~SnapshotExists(getSnapshotName(c, part, labels[k]))
        THEN "Snapshot does not exist"
    ELSE ""

\* strings.Join(parts, "_") of the container and the labels
RECURSIVE JoinLabels(_, _)
JoinLabels(c, labels) ==
    IF labels = <<>> THEN c
    ELSE JoinLabels(c \o "_" \o Head(labels), Tail(labels))

\* the delta of one partition: from the parent's "now" snapshot with one
\* label, from the snapshot of the first label with two
SendDelta(c, partition, labels, targetDir) ==
    IF Len(labels) = 1
    THEN Send(getSnapshotName(parentRef(c), partition, "now"),
              getSnapshotName(c, partition, labels[1]),
              targetDir \o "/" \o partition \o ".delta")
    ELSE Send(getSnapshotName(c, partition, labels[1]),
              getSnapshotName(c, partition, labels[2]),
              targetDir \o "/" \o partition \o ".delta")

\* failAt = 0: every step succeeds; 1..4: the delta of ChildDatasets[failAt]
\* fails; 5: the copy of the config fails
SendSteps == 5

SendContainerSnapshots(container, destDir, labels, dirExists, failAt) ==
    /\ Idle
    /\ LET c == TrimSpace(container)
           d == TrimSpace(destDir)
           args == [destDir |-> destDir, labels |-> labels,
                    dirExists |-> dirExists]
           targetDir == d \o "/" \o JoinLabels(c, labels)
           n == IF failAt = 0 \/ failAt = SendSteps THEN Len(ChildDatasets)
                ELSE failAt
           sends == [k \in 1..n |->
                        SendDelta(c, ChildDatasets[k], labels, targetDir)]
           mk == <<Call("os.MkdirAll", targetDir)>>
           copy == <<Call("fs.Copy", targetDir \o "/config")>>
           pack == <<Call("fs.Compress", targetDir \o ".tar.gz")>>
       IN IF SendChecks(c, d, dirExists, labels) # ""
          THEN /\ failAt = 0
               /\ EndsSend(args, c, SendChecks(c, d, dirExists, labels), <<>>)
          ELSE EndsSend(args, c,
                        IF failAt = 0 THEN ""
                        ELSE IF failAt = SendSteps THEN "Copying config file"
                        ELSE "Sending stream for partition",
                        IF failAt = 0 THEN mk \o sends \o copy \o pack
                        ELSE IF failAt = SendSteps THEN mk \o sends \o copy
                        ELSE mk \o sends)
    /\ UNCHANGED <<snaps, cds, cstate>>

(***************************************************************************)
(* Part III: StateRestore, the supervisor of the containers' states.       *)
(***************************************************************************)
SupConts == <<"c1", "c2">>
SupNames == {SupConts[k] : k \in 1..Len(SupConts)}

RECURSIVE FindFrom(_, _)
FindFrom(k, states) ==
    IF k > Len(SupConts) THEN <<>>
    ELSE (IF db[SupConts[k]] \in states THEN <<SupConts[k]>> ELSE <<>>)
         \o FindFrom(k + 1, states)

\* the query without its filter on the state of the record
getContainersSupposedToBeRunningAny(ok) ==
    IF ok THEN FindFrom(1, {Running, Stopped}) ELSE <<>>

\* the query giving the Running records also when it has failed
getContainersSupposedToBeRunningStale(ok) ==
    FindFrom(1, {Running})

\* db.FindContainers("", Running, ""), or nothing when the query fails
getContainersSupposedToBeRunning(ok) ==
    IF ok THEN FindFrom(1, {Running}) ELSE <<>>

\* failed: the query of the cycle that runs has failed
\* waited: the seconds slept between the attempts to start the entry at hand
Asleep == [pc |-> "sleep", active |-> <<>>, tries |-> 0, failed |-> FALSE, waited |-> 0]

\* a cycle begins: the records to restore are read once
doRestore(ok) ==
    /\ sup.pc = "sleep"
    /\ sup' = [pc |-> "range", active |-> getContainersSupposedToBeRunning(ok),
               tries |-> 0, failed |-> ~ok, waited |-> 0]
    /\ UNCHANGED <<db, rt, downgraded, importVars, snapVars>>

\* the next record of the list; a container that runs needs nothing
RangeActive ==
    /\ sup.pc = "range"
    /\ IF sup.active = <<>>
       THEN sup' = Asleep
       ELSE IF rt[Head(sup.active)] = Running
            THEN sup' = [sup EXCEPT !.active = Tail(@), !.waited = 0]
            ELSE sup' = [sup EXCEPT !.pc = "start", !.tries = 0, !.waited = 0]
    /\ UNCHANGED <<db, rt, downgraded, importVars, snapVars>>

\* how a call of container.Start ends: "ok", with the error "fail" when
\* the container does not run afterwards, or by "exit" of the process when
\* the container runs and CreateContainerConf cannot write its config
StartResults == {"ok", "fail", "exit"}

\* container.Start: it succeeds iff the container runs afterwards and the
\* config is written, and then saves the record as Running
Start(name, res) ==
    /\ rt[name] = Running => res # "fail"
    /\ CASE res = "ok" -> /\ rt' = [rt EXCEPT ![name] = Running]
                          /\ db' = [db EXCEPT ![name] = Running]
         [] res = "exit" -> /\ rt' = [rt EXCEPT ![name] = Running]
                            /\ UNCHANGED db
         [] OTHER -> UNCHANGED <<db, rt>>

\* a sleep of the same length before every retry
RetryDelay_Flat(i) == 5

\* "time.Sleep(time.Second * time.Duration(5+i))": the seconds slept before
\* retry i + 1
RetryDelay(i) == 5 + i

\* one attempt of the supervisor to start the container: the first, or one
\* of the 5 retries; an exit inside container.Start ends the process the
\* supervisor runs in
StartAttempt(res) ==
    /\ sup.pc = "start"
    /\ Start(Head(sup.active), res)
    /\ LET slept == IF sup.tries = 0 THEN 0 ELSE RetryDelay(sup.tries - 1)
           s == [sup EXCEPT !.waited = @ + slept]
       IN sup' = IF res = "ok"
                     THEN [s EXCEPT !.pc = "range", !.active = Tail(@),
                                    !.tries = 0]
                 ELSE IF res = "exit" THEN [s EXCEPT !.pc = "dead"]
                 ELSE IF sup.tries < 5 THEN [s EXCEPT !.tries = @ + 1]
                 ELSE [s EXCEPT !.pc = "save", !.tries = @ + 1]
    /\ UNCHANGED <<downgraded, importVars, snapVars>>

\* v.State = Stopped; db.SaveContainer(&v)
SaveStopped ==
    /\ sup.pc = "save"
    /\ db' = [db EXCEPT ![Head(sup.active)] = Stopped]
    /\ downgraded' = downgraded \cup {Head(sup.active)}
    /\ sup' = [sup EXCEPT !.pc = "range", !.active = Tail(@), !.tries = 0]
    /\ UNCHANGED <<rt, importVars, snapVars>>

\* the operator's "start <name>"
ExplicitStart(name, res) ==
    /\ Start(name, res)
    /\ downgraded' = IF res = "ok" THEN downgraded \ {name} ELSE downgraded
    /\ UNCHANGED <<sup, importVars, snapVars>>

\* the operator's "stop <name>": container.Stop saves the record as Stopped
ExplicitStop(name) ==
    /\ rt' = [rt EXCEPT ![name] = Stopped]
    /\ db' = [db EXCEPT ![name] = Stopped]
    /\ UNCHANGED <<sup, downgraded, importVars, snapVars>>

\* a container that runs dies
Crash(name) ==
    /\ rt[name] = Running
    /\ rt' = [rt EXCEPT ![name] = Stopped]
    /\ UNCHANGED <<db, sup, downgraded, importVars, snapVars>>

(***************************************************************************)
(* Specification of the import command.                                    *)
(***************************************************************************)
ImportInitOf(c, b, g, d) ==
    /\ parents = g
    /\ digests = d
    /\ status = [i \in Invs |-> "new"]
    /\ stack = [i \in Invs |-> <<>>]
    /\ token = [i \in Invs |-> FALSE]
    /\ locks = [k \in LockKeys \cup {DestroyKey} |-> 0]
    /\ cache \in {c0 \in [Files -> Contents] :
                     /\ \A f \in LocalFiles : c0[f] = "orig"
                     /\ Cardinality({r \in Refs : c0[r] # "none"}) <= MaxCached}
    /\ extractDirs = {}
    /\ ds = [r \in Refs |-> NoDataset]
    /\ mgmtCont = FALSE
    /\ conc = c
    /\ budget = b
    /\ faults = 0
    /\ eff = [i \in Invs |-> NoEff]
    /\ installs = [i \in Invs |-> NoInstalls]

ImportInitWith(c, b, g) == ImportInitOf(c, b, g, PublishedDigests)

ImportInit(c, b) == ImportInitWith(c, b, ChainParents)

\* web1 is a container that runs, web2 does not exist; no snapshot yet
SnapInit ==
    /\ snaps = {}
    /\ cds = [c \in ContNames |->
                IF c = "web1"
                THEN [exists |-> TRUE, recv |-> Parts, ro |-> {}, cfg |-> TRUE]
                ELSE NoDataset]
    /\ cstate = [c \in ContNames |-> IF c = "web1" THEN Running ELSE Stopped]
    /\ last = NoCommand

\* the supervisor sleeps; no container runs
SupInit(records) ==
    /\ db = records
    /\ rt = [c \in SupNames |-> Stopped]
    /\ sup = Asleep
    /\ downgraded = {}

AllRunning == [c \in SupNames |-> Running]

ImportNext ==
    \E i \in Invs :
        \/ \E name \in Names, tk \in BOOLEAN : StartImport(i, name, tk)
        \/ \E ok \in BOOLEAN : Begin(i, ok)
        \/ LockImport(i)
        \/ \E o \in InitOutcomes : CheckInstance(i, o)
        \/ CheckCache(i)
        \/ \E gateway, ok \in BOOLEAN : download(i, gateway, ok)
        \/ \E o \in DownloadOutcomes : downloadFromGateway(i, o)
        \/ \E o \in IpfsOutcomes : downloadViaLocalIPFSNode(i, o)
        \/ \E ok \in BOOLEAN : Extract(i, ok)
        \/ CheckTemplate(i)
        \/ ResolveParent(i)
        \/ \E ok \in BOOLEAN : PreInstall(i, ok)
        \/ \E failAt \in 0..InstallSteps : install(i, failAt)
        \/ \E o \in InitOutcomes : Cleanup(i, o)

\* import commands that overlap in time, in an environment without failures
\* other than those of the download
Init == ImportInit(MaxConc, 0) /\ SnapInit /\ SupInit(AllRunning)
Next == ImportNext
Spec == Init /\ [][Next]_vars

\* import commands run one after the other, with failures of the
\* environment
SeqInit == ImportInit(1, MaxFaults) /\ SnapInit /\ SupInit(AllRunning)
SeqSpec == SeqInit /\ [][Next]_vars

\* import commands run one after the other, without failures of the
\* storage, over archives whose configs name any parents at all, cycles
\* among them
ParentGraphs == [Refs -> Refs]

CycleInit ==
    /\ \E g \in ParentGraphs : ImportInitWith(1, 0, g)
    /\ cache = [x \in Files |-> IF x \in LocalFiles THEN "orig" ELSE "none"]
    /\ SnapInit
    /\ SupInit(AllRunning)
CycleSpec == CycleInit /\ [][Next]_vars

\* import commands run one after the other, with failures of the
\* environment, over metadata that carries any digest-method and digest
DigestInit ==
    /\ \E m \in DigestMethods, h \in DigestHashes :
          ImportInitOf(1, MaxFaults, ChainParents,
                       [r \in Refs |-> [DigestMethod |-> m, DigestHash |-> h]])
    /\ SnapInit
    /\ SupInit(AllRunning)
DigestSpec == DigestInit /\ [][Next]_vars

(***************************************************************************)
(* Specification of the snapshot commands.                                 *)
(***************************************************************************)
ImportIdle ==
    /\ ImportInit(0, 0)
    /\ cache = [x \in Files |-> IF x \in LocalFiles THEN "orig" ELSE "none"]

\* a command is given only when the one before it has exited
SnapNext ==
    \/ /\ Idle
       /\ \E c \in SnapContainers, p \in SnapPartitions, l \in SnapLabels,
             stopContainer, ok \in BOOLEAN :
               CreateSnapshot(c, p, l, stopContainer, ok)
    \/ /\ Idle
       /\ \E c \in SnapContainers, p \in SnapPartitions, l \in SnapLabels,
             ok \in BOOLEAN :
               RemoveSnapshot(c, p, l, ok)
    \/ /\ Idle
       /\ \E c \in SnapContainers, p \in SnapPartitions, ok \in BOOLEAN :
               ListSnapshots(c, p, ok)
    \/ /\ Idle
       /\ \E c \in SnapContainers, p \in SnapPartitions, l \in SnapLabels,
             forceRollback, stopContainer \in BOOLEAN, e \in RollbackEnvs :
               RollbackToSnapshot(c, p, l, forceRollback, stopContainer,
                                  e.listOk, e.failAt)
    \/ /\ Idle
       /\ \E c \in RecvContainers, f \in SourceFiles, e \in RecvEnvs :
               ReceiveContainerSnapshots(c, f, e.where, e.unpack, e.files,
                                         e.failAt)
    \/ \E c \in ContNames, state \in {Running, Stopped} :
            LxcStartStop(c, state)
    \/ Exit

SnapSpecInit == ImportIdle /\ SnapInit /\ SupInit(AllRunning)
SnapSpec == SnapSpecInit /\ [][SnapNext]_vars

(***************************************************************************)
(* Specification of overlapping imports whose steps all come to an end: a  *)
(* process that can take a step takes one, and the loop that polls the     *)
(* lock file every second gets the lock once the file stays takeable.      *)
(***************************************************************************)
\* the environment of these imports: a transfer ends well or with a file
\* that does not verify, the peer network has the file or not, and the
\* storage layer does not fail
LiveDownloads == {"ok", "mismatch"}
LiveIpfs == {"ok", "notfound"}

ImportStep(i) ==
    \/ \E ok \in BOOLEAN : Begin(i, ok)
    \/ LockImport(i)
    \/ \E o \in InitOutcomes : CheckInstance(i, o)
    \/ CheckCache(i)
    \/ \E gateway, ok \in BOOLEAN : download(i, gateway, ok)
    \/ \E o \in LiveDownloads : downloadFromGateway(i, o)
    \/ \E o \in LiveIpfs : downloadViaLocalIPFSNode(i, o)
    \/ \E ok \in BOOLEAN : Extract(i, ok)
    \/ CheckTemplate(i)
    \/ ResolveParent(i)
    \/ \E ok \in BOOLEAN : PreInstall(i, ok)
    \/ \E failAt \in {InstallSteps} : install(i, failAt)
    \/ \E o \in InitOutcomes : Cleanup(i, o)

LiveNext ==
    \E i \in Invs :
        \/ \E name \in Names, tk \in {FALSE} : StartImport(i, name, tk)
        \/ ImportStep(i)

LiveInit ==
    /\ ImportInit(MaxConc, 0)
    /\ cache = [x \in Files |-> IF x \in LocalFiles THEN "orig" ELSE "none"]
    /\ SnapInit
    /\ SupInit(AllRunning)
LiveSpec ==
    LiveInit /\ [][LiveNext]_vars /\ \A i \in Invs : WF_vars(ImportStep(i))

(***************************************************************************)
(* Specification of import and destroy commands that overlap in time.      *)
(***************************************************************************)
DestroyNext ==
    \/ ImportNext
    \/ \E i \in Invs :
        \/ \E name \in DestroyNames : StartDestroy(i, name)
        \/ DestroyBegin(i)
        \/ LockDestroy(i)
        \/ \E ok \in BOOLEAN : DestroyDatasets(i, ok)

DestroyInit ==
    /\ ImportInit(MaxConc, 0)
    /\ cache = [x \in Files |-> IF x \in LocalFiles THEN "orig" ELSE "none"]
    /\ SnapInit
    /\ SupInit(AllRunning)
DestroySpec == DestroyInit /\ [][DestroyNext]_vars

(***************************************************************************)
(* Specification of the export command.                                    *)
(***************************************************************************)
ExportNext ==
    \/ /\ Idle
       /\ \E name \in ExportNames, newname \in ExportNewNames,
             ver \in ExportVersions, prefsize \in ExportSizes,
             tok \in ExportTokens, local \in BOOLEAN, cdn \in ExportCdns,
             failAt \in 0..ExportSteps :
               LxcExport(name, newname, ver, prefsize, tok, local, cdn,
                         failAt)
    \/ \E c \in ContNames, state \in {Running, Stopped} :
            LxcStartStop(c, state)
    \/ Exit

ExportInit == ImportIdle /\ SnapInit /\ SupInit(AllRunning)

(***************************************************************************)
(* Specification of the "send" command: the container carries the          *)
(* snapshots two "create" commands of all partitions have left, which      *)
(* "remove" commands take away again.                                      *)
(***************************************************************************)
SendRemoved == {"home", "all"}
SendKept == {"l1", "l2"}

SendNext ==
    \/ /\ Idle
       /\ \E c \in SendContainers, d \in SendDirs, labels \in SendLabels,
             dirExists \in BOOLEAN, failAt \in 0..SendSteps :
               SendContainerSnapshots(c, d, labels, dirExists, failAt)
    \/ /\ Idle
       /\ \E p \in SendRemoved, l \in SendKept, ok \in BOOLEAN :
               RemoveSnapshot("web1", p, l, ok)
    \/ Exit

SendInit ==
    /\ ImportIdle
    /\ SupInit(AllRunning)
    /\ snaps = Recursive("web1", "l1") \cup Recursive("web1", "l2")
    /\ cds = [c \in ContNames |->
                IF c = "web1"
                THEN [exists |-> TRUE, recv |-> Parts, ro |-> {}, cfg |-> TRUE]
                ELSE NoDataset]
    /\ cstate = [c \in ContNames |-> IF c = "web1" THEN Running ELSE Stopped]
    /\ last = NoCommand

SendSpec == SendInit /\ [][SendNext]_vars
ExportSpec == ExportInit /\ [][ExportNext]_vars

(***************************************************************************)
(* Specification of the supervisor.                                        *)
(***************************************************************************)
SupNext ==
    \/ \E ok \in BOOLEAN : doRestore(ok)
    \/ RangeActive
    \/ \E res \in StartResults : StartAttempt(res)
    \/ SaveStopped
    \/ \E c \in SupNames, res \in StartResults : ExplicitStart(c, res)
    \/ \E c \in SupNames : ExplicitStop(c)
    \/ \E c \in SupNames : Crash(c)

SupSpecInit ==
    /\ ImportIdle
    /\ SnapInit
    /\ \E r \in [SupNames -> {Running, Stopped}] : SupInit(r)
SupSpec == SupSpecInit /\ [][SupNext]_vars

TypeOK ==
    /\ status \in [Invs -> {"new", "running", "done", "failed", "over"}]
    /\ locks \in [LockKeys \cup {DestroyKey} -> {0} \cup Invs]
    /\ cache \in [Files -> Contents]
    /\ extractDirs \subseteq Refs
    /\ mgmtCont \in BOOLEAN
    /\ faults \in 0..MaxFaults

(***************************************************************************)
(* Claims about LxcImport.                                                 *)
(***************************************************************************)
Frames == {<<i, k>> \in Invs \X (1..3) : status[i] = "running" /\ k <= Depth(i)}
FrameOf(ik) == stack[ik[1]][ik[2]]

AfterExtract == {"isTemplate", "parent", "installing", "install", "cleanup"}
UnderLock == {"exists", "cache", "download", "doDownload", "ipfs", "extract"}
                 \cup AfterExtract

\* C1: in a remote import the archive is extracted and installed only if the
\* file at CacheDir/<id> has the digest the metadata declares: a call that is
\* about to extract has a verifying file in the cache, and a call that is past
\* the extraction extracted a verifying file.
C1_ExtractOnlyVerified ==
    \A ik \in Frames :
        LET f == FrameOf(ik) IN
        ~f.local =>
            /\ f.pc = "extract" =>
                  verifyChecksum(getTemplateInfo(f.name), cache[f.templateRef])
            /\ f.pc \in AfterExtract =>
                  verifyChecksum(getTemplateInfo(f.name), f.archive)

\* C2 (as stated): an import that finds its reference installed has made no
\* network call (metadata resolution or download) and no dataset-mutating
\* call, and reports success.
C2_NoCallAtAll ==
    \A i \in Invs :
        eff[i].found =>
            /\ ~eff[i].resolve /\ ~eff[i].download /\ ~eff[i].mutate
            /\ status[i] = "done"

\* C2 (amended): an import whose existence check finds its reference
\* installed makes no download and no dataset-mutating call and reports
\* success, after one metadata resolution; the one exception is the bootstrap
\* of the management container (initManagement), which is the only mutation
\* and the only way such an import can fail.
C2_Idempotent ==
    \A i \in Invs :
        eff[i].found =>
            /\ eff[i].resolve
            /\ ~eff[i].download
            /\ eff[i].mutate => eff[i].boot
            /\ ~eff[i].boot => status[i] = "done"
            /\ status[i] \in {"done", "failed"}

\* C2 witness: a command has found its reference installed and ended with
\* success without the bootstrap.
C2_Witness ==
    \E i \in Invs :
        eff[i].found /\ ~eff[i].boot /\ status[i] = "done" /\ eff[i].resolve

\* C3: from an empty host, the first import command installs root-first: when
\* a call has begun install of a reference whose parent is another reference,
\* install of the parent has returned; install is called at most once per
\* reference, and a command that ends with success after installing M has
\* installed A, B and M once each.
C3_RootFirst ==
    /\ \A ik \in Frames :
          LET f == FrameOf(ik)
              q == ConfigParent(f.templateRef)
          IN (ik[1] = 1 /\ f.pc \in {"install", "cleanup"}
                /\ q # f.templateRef)
             => installs[1][q].done = 1
    /\ \A r \in Refs : installs[1][r].calls <= 1
    /\ (status[1] = "done" /\ installs[1]["M"].calls = 1)
          => \A r \in Refs : installs[1][r] = [calls |-> 1, done |-> 1]

\* C3 witness: the first command imported M and A, B and M are installed.
C3_Witness ==
    /\ status[1] = "done"
    /\ \A r \in Refs : installs[1][r] = [calls |-> 1, done |-> 1]
    /\ \A r \in Refs : LxcInstanceExists(r) /\ IsTemplate(r)

\* C4: at most one import is between lock acquisition and release for a
\* template reference: no two processes are at the same time under the lock
\* with the same templateRef.
C4_OneImportPerRef ==
    \A ik, jl \in Frames :
        LET f == FrameOf(ik)
            g == FrameOf(jl)
        IN (ik[1] # jl[1] /\ f.pc \in UnderLock /\ g.pc \in UnderLock)
           => f.templateRef # g.templateRef

\* C5: every exit of LxcImport releases the import lock it took: a lock file
\* that exists is owned by a running process.
C5_NoLockLeftBehind ==
    \A k \in LockKeys : locks[k] # 0 => status[locks[k]] = "running"

(***************************************************************************)
(* Claims about the snapshot commands.                                     *)
(***************************************************************************)
LastName == getSnapshotName(last.container, last.partition, last.label)
Mutating == {"fs.CreateDataset", "fs.ReceiveStream", "fs.Copy"}

\* C6: a rollback of partition "all" that finds one of rootfs, home, var,
\* opt without a snapshot of the label ends in an error and has issued no
\* call at all: no stop of the container, no rollback.  (A rollback leaves
\* the set of snapshots as it found it, so the snapshots of the state after
\* the command are those it ran on.)
C6_AllOrNothing ==
    (/\ last.op = "rollback"
     /\ last.partition = "all"
     /\ last.label # ""
     /\ IsContainer(last.container)
     /\ \E part \in Parts :
           ~SnapshotExists(getSnapshotName(last.container, part, last.label)))
        => (last.result = "error" /\ last.log = <<>>)

\* C8: a create whose snapshot name exists already ends with the error
\* "already exists", has issued no call, and leaves the snapshots as they
\* were.
C8_NoOverwrite ==
    [][(/\ Idle
        /\ last'.op = "create"
        /\ getSnapshotName(last'.container, last'.partition, last'.label)
              \in snaps)
          => (/\ last'.result = "error"
              /\ last'.msg = "Snapshot already exists"
              /\ last'.log = <<>>
              /\ snaps' = snaps)]_vars

C8_Witness ==
    /\ last.op = "create"
    /\ last.msg = "Snapshot already exists"
    /\ LastName \in snaps

\* C9: a receive whose extracted bundle lacks one of the four deltas or the
\* config ends in an error, has created no dataset, received no stream and
\* copied no config, and leaves the datasets as they were.
C9_BundleComplete ==
    [][(/\ Idle
        /\ last'.op = "receive"
        /\ last'.files # BundleFiles)
          => (/\ last'.result = "error"
              /\ Calls(last'.log) \cap Mutating = {}
              /\ cds' = cds)]_vars

C9_Witness ==
    /\ last.op = "receive"
    /\ last.files = BundleFiles \ {"var.delta"}
    /\ last.msg = "Snapshot file for partition not found"
    /\ cds["web2"] = NoDataset

\* C10: a create with stopContainer on a container that runs, once it gets
\* as far as the snapshot primitive, has issued exactly: the stop, the
\* primitive, the start - whether the primitive succeeded or not - and the
\* container runs when the command has ended.
C10_RestartAlways ==
    (/\ last.op = "create"
     /\ last.stop
     /\ last.ran
     /\ "fs.CreateSnapshot" \in Calls(last.log))
        => (/\ Len(last.log) = 3
            /\ last.log[1].call = "LxcStop"
            /\ last.log[2].call = "fs.CreateSnapshot"
            /\ last.log[3].call = "LxcStart"
            /\ State(last.container) = Running)

(***************************************************************************)
(* Claims about the supervisor.                                            *)
(***************************************************************************)
\* C7: the supervisor saves a record as Stopped only after 6 failed start
\* attempts (never a 7th attempt instead), and only for a container it has
\* not downgraded already; it makes no start attempt on a container it
\* downgraded, and the record of such a container stays Stopped, until an
\* explicit start has set the record back to Running.
C7_DowngradeOnce ==
    /\ sup.pc = "save" =>
          (sup.tries = 6 /\ Head(sup.active) \notin downgraded)
    /\ sup.pc = "start" =>
          (sup.tries <= 5 /\ Head(sup.active) \notin downgraded)
    /\ \A c \in downgraded : db[c] = Stopped

\* a later cycle attempts to start c1 while c2, the last of the list of its
\* own cycle, is downgraded and does not run
C7_Witness ==
    /\ "c2" \in downgraded
    /\ rt["c2"] = Stopped
    /\ sup.pc = "start"
    /\ Head(sup.active) = "c1"

(***************************************************************************)
(* Claims about LxcExport.                                                 *)
(***************************************************************************)
Packaging == {"fs.RemoveDataset", "fs.CreateSnapshot", "fs.SendStream",
              "fs.Copy", "updateTemplateConfig", "fs.Compress"}

\* C11: an export of a container that ran when the command was given, once
\* past its checks, has issued the stop first, has issued no start before
\* the last packaging call (snapshots, deltas, config, archive), and leaves
\* the container running when the command has ended, in success and in
\* failure.
C11_StoppedWhilePacking ==
    (last.op = "export" /\ last.ran /\ last.log # <<>>)
        => (/\ last.log[1].call = "LxcStop"
            /\ \A j, k \in 1..Len(last.log) :
                  (last.log[j].call = "LxcStart"
                      /\ last.log[k].call \in Packaging) => k < j
            /\ State(last.container) = Running)

\* C14: an import one of whose calls of install returned an error does not
\* end as done, and no call of LxcImport whose install returned an error goes
\* on to the removal of the cached archive and the writing of the config.
C14_InstallErrorSurfaced ==
    /\ \A i \in Invs : eff[i].installErr => status[i] # "done"
    /\ \A ik \in Frames : FrameOf(ik).pc = "cleanup" => ~FrameOf(ik).installErr

SixNames == {"rootfs", "home", "var", "opt", "config", "all"}
PartitionStrings ==
    SnapPartitions \cup {ToLower(TrimSpace(p)) : p \in SnapPartitions}
        \cup {"RootFS", "ROOTFS", "Home", "Config", "ALL", "rootfs "}

\* C13: checkPartitionName lets exactly the six names pass, and a "create",
\* "remove", "rollback" or "list" command whose partition (for "list": when
\* one is given) is none of the six ends with an error without having made
\* a call to the storage: none that acts or lists and no query of a dataset.
C13_PartitionChecked ==
    /\ \A p \in PartitionStrings : checkPartitionName(p) <=> p \in SixNames
    /\ (/\ last.op \in {"create", "remove", "rollback", "list"}
        /\ last.partition \notin SixNames
        /\ last.op = "list" => last.partition # "")
          => (last.result = "error" /\ last.log = <<>> /\ last.probe = <<>>)

(***************************************************************************)
(* Claims about the supervisor.                                            *)
(***************************************************************************)
\* C15: in a cycle whose query of the Running records has failed the list is
\* empty and the supervisor is at no start and at no downgrade; its next
\* step ends the cycle, to sleep until the next one, and changes no record
\* and no container.
C15_FailedQueryEmptyCycle ==
    [][sup.failed =>
          /\ sup.active = <<>>
          /\ sup.pc = "range"
          /\ sup' # sup =>
                (sup' = Asleep /\ UNCHANGED <<db, rt, downgraded>>)]_vars

\* the cycle after a failed query has ended while a record says Running and
\* its container does not run
C15_Witness ==
    /\ sup.failed
    /\ sup.pc = "range"
    /\ \E c \in SupNames : db[c] = Running /\ rt[c] # Running

\* C16: the supervisor is never gone; the step after the last failed start
\* attempt on a container goes on with the rest of the list of the cycle, in
\* the order of the list; and a cycle whose list is used up ends in the sleep
\* that the next cycle follows.
C16_NeverEnds ==
    [][/\ sup'.pc # "dead"
       /\ (sup.pc = "save" /\ sup' # sup)
             => (sup'.pc = "range" /\ sup'.active = Tail(sup.active))
       /\ (sup.pc = "range" /\ sup.active = <<>> /\ sup' # sup)
             => sup' = Asleep]_vars

(***************************************************************************)
(* Claims about the locks.                                                 *)
(***************************************************************************)
\* the places of LxcImport whose next step asks whether an instance, a
\* template or a dataset exists: LxcInstanceExists(name) of the management
\* shortcut, LxcInstanceExists(templateRef), IsTemplate(templateRef),
\* IsTemplate(parentRef), DatasetExists(templateRef)
ExistenceChecks == {"begin", "exists", "isTemplate", "parent", "installing"}

\* C18: a call of LxcImport that is about to make an existence check holds
\* the import lock of its reference.
C18_ChecksUnderLock ==
    \A ik \in Frames :
        LET f == FrameOf(ik) IN
        f.pc \in ExistenceChecks
            => (f.key \in LockKeys /\ locks[f.key] = ik[1])

\* process i is at the acquisition of a lock that process j holds
WaitsForImport(i, j) ==
    /\ At(i, "lock")
    /\ locks[Top(i).key] = j
WaitsForDestroy(i, j) ==
    /\ \/ At(i, "destroyLock")
       \/ At(i, "installing") /\ DatasetExists(Top(i).templateRef)
    /\ locks[DestroyKey] = j

\* two references of one parent chain
Ancestors(r) == {ConfigParent(r), ConfigParent(ConfigParent(r))}
Related(a, b) ==
    \/ a = b
    \/ /\ a \in Refs
       /\ b \in Refs
       /\ a \in Ancestors(b) \/ b \in Ancestors(a)

\* C19: an import or a destroy that waits for a lock waits for a process
\* that works on the same reference or on one of its parent chain: never for
\* an import or a destroy of an unrelated reference.
C19_UnrelatedNeverWait ==
    \A i, j \in Invs :
        (i # j /\ status[j] = "running")
            => /\ WaitsForImport(i, j) =>
                     \E k \in 1..Depth(j) :
                         /\ stack[j][k].key = Top(i).key
                         /\ Related(Top(i).templateRef, stack[j][k].templateRef)
               /\ WaitsForDestroy(i, j) =>
                     Related(Top(i).templateRef, Top(j).templateRef)

\* C20: a call of doDownload that reports success, so that the loop of
\* downloadFromGateway ends and the import goes on to the extraction,
\* leaves at CacheDir/<id> a file that verifies against the declared
\* digest, and its transfer was not one that ended in a transport error.
C20_SuccessOnlyVerified ==
    [][\A i \in Invs : \A o \in DownloadOutcomes :
          (/\ At(i, "doDownload")
           /\ downloadFromGateway(i, o)
           /\ status'[i] = "running"
           /\ stack'[i][Depth(i)].pc = "extract")
              => /\ o \notin {"reqerr", "neterr", "partial"}
                 /\ verifyChecksum(getTemplateInfo(Top(i).name),
                                   cache'[Top(i).templateRef])]_vars

\* C17: every import that runs comes to its end, and every import that
\* waits for an import lock gets it: it then goes on, under the lock, with
\* the check of its instance.
C17_ImportsTerminate ==
    \A i \in Invs :
        /\ (status[i] = "running") ~> (status[i] \in {"done", "failed", "over"})
        /\ At(i, "lock") ~> (At(i, "exists") /\ locks[Top(i).key] = i)

\* an import waits for the import lock that another import holds, which
\* itself is inside the import of a parent
C17_Witness ==
    \E i, j \in Invs :
        /\ i # j
        /\ At(i, "lock")
        /\ status[j] = "running"
        /\ locks[Top(i).key] = j
        /\ Depth(j) > 1

\* C21: a round of downloadFromGateway is the first, second or third of its
\* call; the loop ends with the import going on to the extraction only
\* after a round whose transfer and verification succeeded; a third round
\* that failed, in its transfer or its verification, ends the import as
\* failed.
C21_AtMostThreeCycles ==
    [][\A i \in Invs : \A o \in DownloadOutcomes :
          (At(i, "doDownload") /\ downloadFromGateway(i, o))
              => /\ Top(i).attempts \in 1..maxDownloadAttempts
                 /\ (status'[i] = "running"
                        /\ stack'[i][Depth(i)].pc = "extract") => o = "ok"
                 /\ (o # "ok" /\ Top(i).attempts = maxDownloadAttempts)
                       => status'[i] = "failed"]_vars

\* C22: the cache check of a remote import that finds a file at CacheDir/<id>
\* goes on to the extraction, leaving the file as it is, when the file
\* verifies, and to the download, as it does without a file, when it does
\* not; and the extraction of a remote import takes the file that is at
\* CacheDir/<id>.
C22_CacheHitOrMiss ==
    [][\A i \in Invs :
          /\ (At(i, "cache") /\ CheckCache(i) /\ ~Top(i).local
                 /\ cache[Top(i).templateRef] # "none")
                => /\ cache' = cache
                   /\ stack'[i][Depth(i)].pc =
                         IF verifyChecksum(getTemplateInfo(Top(i).name),
                                           cache[Top(i).templateRef])
                         THEN "extract" ELSE "download"
          /\ (At(i, "extract") /\ Extract(i, TRUE) /\ ~Top(i).local)
                => stack'[i][Depth(i)].archive = cache[Top(i).templateRef]]_vars

\* a remote import has extracted the verifying file it found in the cache,
\* and no transfer was begun
C22_Witness ==
    \E i \in Invs :
        /\ At(i, "isTemplate")
        /\ Depth(i) = 1
        /\ ~Top(i).local
        /\ Top(i).archive = "orig"
        /\ ~eff[i].download

\* C23: the call of install is followed by the cleanup; the cleanup of a
\* remote import leaves neither the extraction directory nor the file at
\* CacheDir/<id>; and no step of any import removes or changes a file whose
\* path an import was given.
C23_CleanupRemoves ==
    [][/\ \A i \in Invs :
            /\ (At(i, "install") /\ status'[i] = "running"
                   /\ stack'[i][Depth(i)].pc # "install")
                  => stack'[i][Depth(i)].pc = "cleanup"
            /\ (At(i, "cleanup") /\ stack'[i] # stack[i] /\ ~Top(i).local)
                  => /\ Top(i).templateRef \notin extractDirs'
                     /\ cache'[Top(i).templateRef] = "none"
       /\ \A f \in LocalFiles : cache'[f] = cache[f]]_vars

\* a local import is past its cleanup, whose reference has been installed
C23_Witness ==
    \E i \in Invs :
        /\ status[i] = "done"
        /\ installs[i]["B"].done = 1
        /\ \E f \in LocalFiles : cache[f] = "orig" /\ locks[TmplKey(f)] = 0
        /\ "B" \notin extractDirs

\* C24: a call of LxcImport on an existing file neither resolves metadata
\* nor downloads: it goes from the cache test to the extraction whatever the
\* file holds, and from the extraction on its reference is the one declared
\* in the config of the archive, which is the only dataset its install
\* changes.
C24_LocalImport ==
    [][\A i \in Invs :
         (status[i] = "running" /\ Depth(i) = 1 /\ Top(i).local
             /\ stack'[i] # stack[i])
            => /\ eff'[i].resolve = eff[i].resolve
               /\ eff'[i].download = eff[i].download
               /\ At(i, "cache") => stack'[i][1].pc = "extract"
               /\ (At(i, "extract") /\ status'[i] = "running")
                     => /\ stack'[i][1].templateRef = ConfigTemplate(Top(i).name)
                        /\ stack'[i][1].templateRef # TmplKey(Top(i).name)
               /\ At(i, "install")
                     => \A r \in Refs :
                           ds'[r] # ds[r] => r = ConfigTemplate(Top(i).name)]_vars

\* a call on a file installs the declared reference in a process that has
\* neither resolved nor downloaded anything
C24_Witness ==
    \E i \in Invs :
        /\ At(i, "cleanup") /\ Depth(i) = 1 /\ Top(i).local
        /\ ~Top(i).installErr
        /\ Top(i).templateRef = ConfigTemplate(Top(i).name)
        /\ ~eff[i].resolve /\ ~eff[i].download /\ eff[i].mutate

\* the seconds slept in all before attempt n of one entry ends
WaitedBy == <<0, 5, 11, 18, 26, 35>>

\* C25: an attempt of the supervisor to start an entry is at most the 6th;
\* the sleeps before the retries are 5, 6, 7, 8 and 9 seconds, 35 in all at
\* most; a successful start ends the attempts; and the record is downgraded
\* only after the 6th attempt has failed.
C25_SixStartsThenDowngrade ==
    [][/\ \A res \in StartResults :
            (sup.pc = "start" /\ StartAttempt(res))
               => /\ sup.tries \in 0..5
                  /\ sup'.waited = WaitedBy[sup.tries + 1]
                  /\ sup'.waited <= 35
                  /\ res = "ok" => sup'.pc = "range"
                  /\ (res = "fail" /\ sup.tries < 5) => sup'.pc = "start"
                  /\ sup'.pc = "save" <=> (res = "fail" /\ sup.tries = 5)
       /\ ~(downgraded' \subseteq downgraded)
             => sup.pc = "save" /\ sup.tries = 6]_vars

\* the 6th attempt has failed, after 35 seconds of sleep
C25_Witness ==
    sup.pc = "save" /\ sup.tries = 6 /\ sup.waited = 35

\* the targets of the rollbacks command "rollback" has issued, in order
RolledBack ==
    LET rb == SelectSeq(last.log,
                 LAMBDA e : e.call \in {"fs.RollbackToSnapshot",
                                        "fs.RollbackToSnapshot -r"})
    IN [k \in 1..Len(rb) |-> rb[k].on]

\* the snapshots of the container itself and of the datasets under it that
\* carry the label
SubtreeSnapshots(c, l) ==
    {s \in snaps : \E k \in 1..Len(ListOrder) : s = c \o ListOrder[k] \o "@" \o l}

\* C26: a "rollback" of "all" that ends well has rolled back, once each,
\* exactly the snapshots of the container's subtree whose name ends in "@"
\* and the label, and one that ends in an error has rolled back some of them
\* and nothing else; a "rollback" of one of the partitions that ends well
\* has issued one rollback, of container/partition@label.
C26_RollbackTargets ==
    (last.op = "rollback" /\ RollbackChecks(last.container, last.partition,
                                            last.label) = "")
       => LET c == last.container
              l == last.label
              set == {RolledBack[k] : k \in 1..Len(RolledBack)}
          IN /\ last.partition = "all"
                   => /\ set \subseteq SubtreeSnapshots(c, l)
                      /\ Cardinality(set) = Len(RolledBack)
                      /\ last.result = "ok" => set = SubtreeSnapshots(c, l)
             /\ (last.partition \in Parts /\ last.result = "ok")
                   => RolledBack = <<c \o "/" \o last.partition \o "@" \o l>>
             /\ last.partition # "all" => Len(RolledBack) <= 1

\* a "rollback" of "all" has rolled back the snapshot of the container
\* itself and those of three partitions, the fourth having none
C26_Witness ==
    /\ last.op = "rollback" /\ last.partition = "all" /\ last.result = "ok"
    /\ Len(RolledBack) = 4
    /\ (last.container \o "@" \o last.label) \in
           {RolledBack[k] : k \in 1..Len(RolledBack)}
    /\ \E part \in Parts :
          ~SnapshotExists(getSnapshotName(last.container, part, last.label))

\* what an "export" of container name does for partition vol when it is
\* called in a state where the snapshots are before: the removal of an
\* existing name/vol@now, the creation of name/vol@now, and the sending of
\* the delta from parentRef/vol@now to it into deltas/vol.delta of some
\* build directory
VolumeCalls(name, vol, before, log) ==
    LET now == name \o "/" \o vol \o "@now"
        sent == SelectSeq(log, LAMBDA e : e.call = "fs.SendStream" /\ e.on = now)
    IN (IF now \in before THEN <<Call("fs.RemoveDataset", now)>> ELSE <<>>)
       \o <<Call("fs.CreateSnapshot", now)>> \o sent

\* C27: an "export" that ends well has, for rootfs, home, var and opt in
\* this order, removed the "now" snapshot of the partition if there was one,
\* then created it, then sent the delta from the "now" snapshot of the same
\* partition of the parent to it into deltas/<partition>.delta; afterwards
\* the "now" snapshot of each partition exists.
C27_ExportPerPartition ==
    [][(Idle /\ last'.op = "export" /\ last'.result = "ok")
         => LET name == last'.container
                vc == SelectSeq(last'.log,
                         LAMBDA e : e.call \in {"fs.RemoveDataset",
                                                "fs.CreateSnapshot",
                                                "fs.SendStream"})
                sends == SelectSeq(last'.log,
                            LAMBDA e : e.call = "fs.SendStream")
                vols == <<"rootfs", "home", "var", "opt">>
            IN /\ vc = VolumeCalls(name, "rootfs", snaps, last'.log)
                         \o VolumeCalls(name, "home", snaps, last'.log)
                         \o VolumeCalls(name, "var", snaps, last'.log)
                         \o VolumeCalls(name, "opt", snaps, last'.log)
               /\ Len(sends) = 4
               /\ \A k \in 1..4 :
                     /\ sends[k].on = name \o "/" \o vols[k] \o "@now"
                     /\ sends[k].from = parentRef(name) \o "/" \o vols[k] \o "@now"
                     /\ sends[k].into =
                           ExportDst(name, last'.args.newname,
                                     TrimSpace(last'.args.version))
                               \o "/deltas/" \o vols[k] \o ".delta"
                     /\ (name \o "/" \o vols[k] \o "@now") \in snaps']_vars

\* an "export" has ended well that found "now" snapshots of an earlier one
C27_Witness ==
    /\ last.op = "export" /\ last.result = "ok"
    /\ "fs.RemoveDataset" \in Calls(last.log)
    /\ "fs.SendStream" \in Calls(last.log)
    /\ \A part \in Parts :
          SnapshotExists(last.container \o "/" \o part \o "@now")

\* the call is one LxcExport has to reject: no such container, no token, a
\* version that is given and is not X.Y.Z, or a template published under
\* the new name if there is one and under the name of the container if not
ExportRejected(name, a) ==
    \/ ~IsContainer(name)
    \/ a.token = ""
    \/ TrimSpace(a.version) \notin {"", "1.0.0"}
    \/ (a.newname # "" /\ a.newname \in a.cdn)
    \/ (a.newname = "" /\ name \in a.cdn)

\* C28: a call of LxcExport on a container that does not exist, with an
\* empty token, with a version that is neither empty nor X.Y.Z, or for a
\* template that the metadata service already has, ends in an error and has
\* stopped no container, cleaned no file and removed or created no snapshot.
C28_RejectedBeforeEffects ==
    [][(Idle /\ last'.op = "export"
           /\ ExportRejected(last'.container, last'.args))
          => /\ last'.result = "error"
             /\ last'.log = <<>>
             /\ cstate' = cstate
             /\ snaps' = snaps]_vars

\* a call that is rejected only because the template is already published
\* under the new name has ended, the container still running
C28_Witness ==
    /\ last.op = "export" /\ last.result = "error"
    /\ last.msg = "Template already exists on CDN"
    /\ last.args.newname # "" /\ last.args.cdn = {last.args.newname}
    /\ last.log = <<>>
    /\ last.ran /\ State(last.container) = Running

\* C29: the size LxcExport writes into the config of the template is the
\* one asked for when that is tiny, small, medium, large or huge, and tiny
\* when it is anything else, the empty string included.
C29_PreferredSize ==
    last.op = "export"
       => \A k \in 1..Len(last.log) :
             last.log[k].call = "updateTemplateConfig"
                => last.log[k].size =
                      IF last.args.prefsize \in {"tiny", "small", "medium",
                                                 "large", "huge"}
                      THEN last.args.prefsize ELSE "tiny"

\* an export called with the empty string for the size has written tiny
C29_Witness ==
    /\ last.op = "export" /\ last.result = "ok"
    /\ last.args.prefsize = ""
    /\ \E k \in 1..Len(last.log) :
          /\ last.log[k].call = "updateTemplateConfig"
          /\ last.log[k].size = "tiny"

\* C30: a "send" goes past its checks only with one or two labels, none of
\* them empty, each of which has a snapshot on rootfs, home, var and opt,
\* and a "send" that does not go past them has created nothing; one that
\* does sends, for each partition, the delta from parentRef/partition@now to
\* container/partition@label when there is one label, and from
\* container/partition@label1 to container/partition@label2 when there are
\* two.
C30_SendLabels ==
    last.op = "send"
       => LET c == last.container
              labels == last.args.labels
              good == /\ Len(labels) \in {1, 2}
                      /\ \A k \in 1..Len(labels) :
                            /\ labels[k] # ""
                            /\ \A part \in {"rootfs", "home", "var", "opt"} :
                                  (c \o "/" \o part \o "@" \o labels[k]) \in snaps
              sends == SelectSeq(last.log, LAMBDA e : e.call = "fs.SendStream")
              vols == <<"rootfs", "home", "var", "opt">>
          IN /\ ~good => last.result = "error" /\ last.log = <<>>
             /\ good => last.msg \notin {"Invalid number of snapshot labels",
                                         "Invalid snapshot label",
                                         "Snapshot does not exist"}
             /\ last.log # <<>> => good
             /\ last.result = "ok" => Len(sends) = 4
             /\ \A k \in 1..Len(sends) :
                   /\ k <= 4
                   /\ sends[k].on = c \o "/" \o vols[k] \o "@" \o labels[Len(labels)]
                   /\ sends[k].from =
                         IF Len(labels) = 1
                         THEN parentRef(c) \o "/" \o vols[k] \o "@now"
                         ELSE c \o "/" \o vols[k] \o "@" \o labels[1]

\* a "send" with two labels has ended well
C30_Witness ==
    /\ last.op = "send" /\ last.result = "ok"
    /\ last.args.labels = <<"l1", "l2">>
    /\ Len(last.log) = 7

\* C31: the step of LxcImport that reads the parent of the config calls
\* LxcImport for the parent exactly when the parent differs from the
\* reference at hand, is not an installed template and is not in the queued
\* set; the call gets the queued set with the parent and the reference
\* added; and while a call of LxcImport is under way, every call that
\* encloses it has not begun its own install.
C31_RecursionCondition ==
    [][\A i \in Invs :
         /\ (At(i, "parent") /\ ResolveParent(i))
               => LET f == Top(i)
                      p == parents[f.templateRef]
                      need == /\ p # f.templateRef
                              /\ ~("rootfs" \in ds[p].recv /\ "rootfs" \in ds[p].ro)
                              /\ p \notin f.auxDepList
                  IN /\ need
                          => /\ Len(stack'[i]) = Depth(i) + 1
                             /\ stack'[i][Depth(i) + 1].name = p
                             /\ stack'[i][Depth(i) + 1].pc = "begin"
                             /\ stack'[i][Depth(i) + 1].auxDepList =
                                    f.auxDepList \cup {p, f.templateRef}
                     /\ ~need => Len(stack'[i]) = Depth(i)
                     /\ stack'[i][Depth(i)].pc = "installing"
                     /\ installs' = installs
         /\ \A d \in 1..(Len(stack'[i]) - 1) :
               /\ stack'[i][d].pc = "installing"
               /\ installs'[i][stack'[i][d].templateRef].calls = 0]_vars

\* the install of a reference is under way after the call of LxcImport for
\* its parent has installed the parent and returned
C31_Witness ==
    \E i \in Invs :
        /\ At(i, "install") /\ Depth(i) = 1
        /\ parents[Top(i).templateRef] # Top(i).templateRef
        /\ installs[i][parents[Top(i).templateRef]].done = 1

\* the dataset tree after the first k steps of install: the dataset, the
\* deltas of rootfs, home, var, opt, their read-only marks, the config
InstallOrder == <<"rootfs", "home", "var", "opt">>
InstallPrefix(k) ==
    [exists |-> k >= 1,
     recv |-> {InstallOrder[j] : j \in {n \in 1..4 : n <= k - 1}},
     ro |-> {InstallOrder[j] : j \in {n \in 1..4 : n <= k - 5}},
     cfg |-> k >= 10]

\* C32: the dataset of a reference is always what a number of steps of
\* install in the order dataset, rootfs, home, var, opt received, rootfs,
\* home, var, opt read-only, config leave, so that nothing is read-only
\* before the four deltas are there; and an install whose step k fails has
\* carried out the steps before k and none after it, and ends with an error.
C32_InstallOrder ==
    [][/\ \A r \in Refs : \E k \in 0..10 : ds'[r] = InstallPrefix(k)
       /\ \A r \in Refs : ds'[r].ro # {} => ds'[r].recv = Parts
       /\ \A i \in Invs : \A failAt \in 0..InstallSteps :
            (At(i, "install") /\ install(i, failAt)
                /\ ds[Top(i).templateRef] = InstallPrefix(Top(i).step))
               => LET f == Top(i)
                      stop == IF f.step < 5 THEN 5 ELSE IF f.step < 9 THEN 9 ELSE 10
                  IN IF failAt < stop
                     THEN /\ ds'[f.templateRef] = InstallPrefix(failAt)
                          /\ stack'[i][Depth(i)].pc = "cleanup"
                          /\ stack'[i][Depth(i)].installErr
                     ELSE /\ ds'[f.templateRef] = InstallPrefix(stop)
                          /\ ~stack'[i][Depth(i)].installErr
                          /\ stack'[i][Depth(i)].pc =
                                IF stop = 10 THEN "cleanup" ELSE "install"]_vars

\* an install has ended with the error of the delta of var
C32_Witness ==
    \E i \in Invs :
        /\ At(i, "cleanup") /\ Top(i).installErr
        /\ ds[Top(i).templateRef] = InstallPrefix(3)

C34_InstallUnderOwnLock ==
    \A i \in Invs :
        At(i, "install") => locks[Top(i).templateRef] = i

\* C35: a call of LxcImport for a parent is never for the reference at hand,
\* for a reference of the queued set, or for the reference or the lock of a
\* call that encloses it; a call that is about to take its lock never finds
\* it held by its own process; and the calls of one process are never nested
\* deeper than there are references, whatever parents the configs name.
C35_RecursionBounded ==
    [][\A i \in Invs :
         /\ (At(i, "parent") /\ Len(stack'[i]) = Depth(i) + 1)
               => LET new == stack'[i][Depth(i) + 1].name
                  IN /\ new # Top(i).templateRef
                     /\ new \notin Top(i).auxDepList
                     /\ \A d \in 1..Depth(i) :
                           new \notin {stack[i][d].key, stack[i][d].templateRef}
         /\ At(i, "lock") => locks[Top(i).key] # i
         /\ Len(stack'[i]) <= Cardinality(Refs)]_vars

\* the calls are nested as deep as there are references, over configs whose
\* parents form a cycle
C35_Witness ==
    \E i \in Invs :
        /\ status[i] = "running" /\ Depth(i) = Cardinality(Refs)
        /\ parents[Top(i).name] = stack[i][1].name
        /\ Top(i).pc = "installing"

\* the dataset of the reference is what an install that failed has left
HalfBuilt(r) == ds[r].exists /\ ~ds[r].cfg

C37_NoStartOfStopped ==
    [][\A res \in StartResults :
         (sup.pc = "start" /\ StartAttempt(res))
            => /\ db[Head(sup.active)] = Running
               /\ db'[Head(sup.active)] = db[Head(sup.active)]]_vars

\* C38: an export of a container that did not run when the command was
\* given issues no start of it and does not leave it running.
C38_NeverStartsStopped ==
    (last.op = "export" /\ ~last.ran)
       => /\ "LxcStart" \notin Calls(last.log)
          /\ (IsContainer(last.container)
                 => State(last.container) # Running)

\* labels to compare the names of snapshots on
NameLabels == {"l1", "l2"}

\* C39: the partitions "config" and "all" give, for one container and one
\* label, the one name container@label, so that a "create" of either is
\* rejected as already existing once that snapshot is there and changes
\* nothing; and two different pairs of one of rootfs, home, var, opt and a
\* label never give the same name.
C39_ConfigAllSameName ==
    [][/\ \A c \in ContNames, l \in NameLabels :
            /\ getSnapshotName(c, "config", l) = c \o "@" \o l
            /\ getSnapshotName(c, "all", l) = c \o "@" \o l
            /\ \A p1, p2 \in {"rootfs", "home", "var", "opt"} :
               \A l2 \in NameLabels :
                  getSnapshotName(c, p1, l) = getSnapshotName(c, p2, l2)
                     => (p1 = p2 /\ l = l2)
       /\ (/\ Idle /\ last'.op = "create"
           /\ last'.partition \in {"config", "all"}
           /\ CommonChecks(last'.container, last'.partition, last'.label) = ""
           /\ (last'.container \o "@" \o last'.label) \in snaps)
             => /\ last'.result = "error"
                /\ last'.msg = "Snapshot already exists"
                /\ last'.log = <<>>
                /\ snaps' = snaps]_vars

\* a "create" of "all" is rejected over the snapshot a "create" of "config"
\* has made: the container has it and its partitions have none
C39_Witness ==
    /\ last.op = "create" /\ last.partition = "all"
    /\ last.msg = "Snapshot already exists"
    /\ (last.container \o "@" \o last.label) \in snaps
    /\ \A part \in Parts :
          (last.container \o "/" \o part \o "@" \o last.label) \notin snaps

\* the metadata of a reference names a digest method the agent knows
Recognised(r) ==
    getTemplateInfo(r).DigestMethod \in {Sha256DigestMethod, Md5DigestMethod}

\* C40: verifyChecksum answers true exactly for the method "sha256" with the
\* sha256 digest of the file, or "md5" with its md5 digest, and false for
\* every other method and for none, whatever the file and the digest; so
\* for a remote import whose metadata names no such method no verification
\* passes: the cache check sends it to the download whatever file is there,
\* and no transfer that ran to its end, by the gateway or by IPFS, lets it
\* go on to the extraction.
C40_VerifyChecksum ==
    [][/\ \A m \in DigestMethods, h \in DigestHashes :
          \A content \in Contents \ {"none"} :
             LET t == [Id |-> "A", Name |-> "A",
                       DigestMethod |-> m, DigestHash |-> h]
             IN verifyChecksum(t, content) <=>
                   \/ m = "sha256" /\ h = <<"sha256", content>>
                   \/ m = "md5" /\ h = <<"md5", content>>
       /\ \A i \in Invs :
             (status[i] = "running" /\ stack[i] # <<>> /\ ~Top(i).local
                 /\ ~Recognised(Top(i).name))
                => /\ (At(i, "cache") /\ CheckCache(i))
                         => stack'[i][Depth(i)].pc = "download"
                   /\ \A o \in {"ok", "mismatch"} :
                         (At(i, "doDownload") /\ downloadFromGateway(i, o))
                            => ~(status'[i] = "running"
                                    /\ stack'[i][Depth(i)].pc = "extract")
                   /\ \A o \in IpfsOutcomes :
                         (At(i, "ipfs") /\ downloadViaLocalIPFSNode(i, o))
                            => status'[i] = "failed"]_vars

\* a remote import whose metadata names no method the agent knows has
\* fetched the published archive twice, the verification has refused it
\* both times, and the third and last round is due
C40_Witness ==
    \E i \in Invs :
        /\ status[i] = "running"
        /\ stack[i] # <<>>
        /\ ~Top(i).local
        /\ ~Recognised(Top(i).name)
        /\ Top(i).pc = "doDownload"
        /\ Top(i).attempts = maxDownloadAttempts
        /\ Top(i).mismatches = maxDownloadAttempts - 1
        /\ cache[Top(i).templateRef] = "orig"

====
